---- MODULE Spec2Model ----
(***************************************************************************)
(* A model of three parts of the provider:                                 *)
(*   - the Security Hub automation rule resource (Create, Read, Update,   *)
(*     Delete and its expand/flatten converters),                          *)
(*   - the OpenSearch authorize-VPC-endpoint-access resource,              *)
(*   - the QuickSight visual-field converters and the Route 53 record      *)
(*     state migration exercised by the route53 tests.                     *)
(* Spec     : life cycle of one automation rule resource                   *)
(* SpecOS   : life cycle of the OpenSearch access resources                *)
(* SpecBoth : a configuration with resources of one of the two kinds       *)
(* SpecFn   : the pure converters applied to bounded inputs                *)
(***************************************************************************)
EXTENDS Integers, Sequences, FiniteSets, TLC

VARIABLES
    fn, arg, res,                 \* SpecFn: converter applied, its input, its output
    remote, state, diags, pc, data, calls, lastOp,   \* Spec
    readOut,                      \* Spec: answer to the last handler's lookup or delete call
    input, issued, updates,       \* Spec: request sent, ARNs handed out, Update calls made
    principals, osState, osOut    \* SpecOS

vars == <<fn, arg, res, remote, state, diags, pc, data, calls, readOut, lastOp,
          input, issued, updates, principals, osState, osOut>>

fnVars == <<fn, arg, res>>
ruleVars == <<remote, state, diags, pc, data, calls, readOut, lastOp, input, issued,
              updates>>
osVars == <<principals, osState, osOut>>

(***************************************************************************)
(* Bounds of the model.                                                    *)
(***************************************************************************)
MaxNameLen == 3        \* longest record name, in characters
MaxFilters == 2        \* longest filter list handed to a filter expander
MaxSetAttrs == 1       \* criteria attributes that are non-null in an input
MaxCreates == 1        \* CreateAutomationRule calls the service accepts
MaxUpdates == 1        \* Update calls Terraform makes
MaxPages == 3          \* pages one ListVpcEndpointAccess paging delivers

(***************************************************************************)
(* Go and plugin-framework values.                                         *)
(***************************************************************************)
\* *string: nil or a pointer to a string
NilPtr == [nil |-> TRUE, v |-> ""]
Ptr(s) == [nil |-> FALSE, v |-> s]
awsToString(p) == IF p.nil THEN "" ELSE p.v

\* *float64 / *int32: nil or a pointer to a number
NilNum == [nil |-> TRUE, v |-> 0]
Num(n) == [nil |-> FALSE, v |-> n]

\* a Go slice: nil, or a (possibly empty) sequence of items
NilSlice == [nil |-> TRUE, items |-> <<>>]
Slice(items) == [nil |-> FALSE, items |-> items]

\* attr.Value: every framework value carries its type; a value is null,
\* unknown or known
StringNull == [type |-> <<"string">>, null |-> TRUE, unknown |-> FALSE, value |-> ""]
StringUnknown == [type |-> <<"string">>, null |-> FALSE, unknown |-> TRUE, value |-> ""]
StringValue(s) == [type |-> <<"string">>, null |-> FALSE, unknown |-> FALSE, value |-> s]
ValueString(x) == IF x.null \/ x.unknown THEN "" ELSE x.value

BoolValue(b) == [type |-> <<"bool">>, null |-> FALSE, value |-> b]
ValueBool(x) == IF x.null THEN FALSE ELSE x.value

Float64Null == [type |-> <<"float64">>, null |-> TRUE, value |-> 0]
Float64Value(n) == [type |-> <<"float64">>, null |-> FALSE, value |-> n]
ValueFloat64(x) == IF x.null THEN 0 ELSE x.value

Int64Null == [type |-> <<"int64">>, null |-> TRUE, value |-> 0]
Int64Value(n) == [type |-> <<"int64">>, null |-> FALSE, value |-> n]
ValueInt64(x) == IF x.null THEN 0 ELSE x.value

SetType(elemType) == <<"set">> \o elemType
ListType(elemType) == <<"list">> \o elemType
SetNull(elemType) == [type |-> SetType(elemType), null |-> TRUE, unknown |-> FALSE, elems |-> {}]
SetUnknown(elemType) == [type |-> SetType(elemType), null |-> FALSE, unknown |-> TRUE, elems |-> {}]
ListNull(elemType) == [type |-> ListType(elemType), null |-> TRUE, unknown |-> FALSE, elems |-> <<>>]
ListUnknown(elemType) == [type |-> ListType(elemType), null |-> FALSE, unknown |-> TRUE, elems |-> <<>>]
ObjectUnknown(objType) == [type |-> objType, unknown |-> TRUE, attrs |-> <<>>]

\* types.ObjectValue: an error diagnostic when the attributes given are not
\* exactly those of attrTypes, or one of them has another type
ObjectValue(objType, attrTypes, obj) ==
    LET bad == \/ DOMAIN obj # DOMAIN attrTypes
               \/ \E k \in DOMAIN obj \cap DOMAIN attrTypes : obj[k].type # attrTypes[k]
    IN [val |-> IF bad THEN ObjectUnknown(objType)
                ELSE [type |-> objType, unknown |-> FALSE, attrs |-> obj],
        err |-> bad]

\* types.SetValue / types.ListValue: an error diagnostic when an element is
\* not of the element type
SetValue(elemType, result) ==
    LET bad == \E i \in DOMAIN result : result[i].type # elemType
    IN [val |-> IF bad THEN SetUnknown(elemType)
                ELSE [type |-> SetType(elemType), null |-> FALSE, unknown |-> FALSE,
                      elems |-> {result[i] : i \in DOMAIN result}],
        err |-> bad]

ListValue(elemType, result) ==
    LET bad == \E i \in DOMAIN result : result[i].type # elemType
    IN [val |-> IF bad THEN ListUnknown(elemType)
                ELSE [type |-> ListType(elemType), null |-> FALSE, unknown |-> FALSE,
                      elems |-> result],
        err |-> bad]

\* Set.ElementsAs / List.ElementsAs into a slice of structs: the elements'
\* attributes, a set's in some order
RECURSIVE SetToSeq(_)
SetToSeq(S) ==
    IF S = {} THEN <<>> ELSE LET x == CHOOSE x \in S : TRUE IN <<x>> \o SetToSeq(S \ {x})

ElementsAs(v) ==
    IF v.type[1] = "set" THEN [i \in 1..Cardinality(v.elems) |-> SetToSeq(v.elems)[i].attrs]
    ELSE [i \in 1..Len(v.elems) |-> v.elems[i].attrs]
\* ElementsAs adds an error diagnostic for a value that is not known, or that
\* holds an object that is not known
ElementsAsErr(v) ==
    \/ v.unknown
    \/ IF v.type[1] = "set" THEN \E e \in v.elems : e.unknown
       ELSE \E i \in DOMAIN v.elems : v.elems[i].unknown

\* flex.StringToFramework: nil pointer -> null, otherwise the pointed-to value
StringToFramework(p) == IF p.nil THEN StringNull ELSE StringValue(p.v)
\* flex.StringValueToFramework: the zero value "" -> null
StringValueToFramework(s) == IF s = "" THEN StringNull ELSE StringValue(s)
\* flex.Float64ToFramework, flex.Int32ToFramework: nil pointer -> null
Float64ToFramework(p) == IF p.nil THEN Float64Null ELSE Float64Value(p.v)
Int32ToFramework(p) == IF p.nil THEN Int64Null ELSE Int64Value(p.v)

\* int32(x) of an int64 x: the low bits, as a signed number.  The model
\* checker's integers are 32 bits wide, so the widths are scaled down: the
\* narrow type keeps 16 bits where int32 keeps 32.
Int32(x) == ((x + 32768) % 65536) - 32768

NoDupSeqs(S, n) == UNION {{s \in [1..k -> S] : \A i, j \in 1..k : i # j => s[i] # s[j]} : k \in 0..n}

(***************************************************************************)
(* Route 53 record state migration (route53 tests).  A string is a         *)
(* sequence of characters; a missing map key reads as the empty string.    *)
(***************************************************************************)
Absent == <<"<absent>">>
Get(m, k) == IF k \in DOMAIN m THEN m[k] ELSE <<>>
Put(m, k, v) == [x \in DOMAIN m \cup {k} |-> IF x = k THEN v ELSE m[x]]
delete(m, k) == [x \in DOMAIN m \ {k} |-> m[x]]

HasSuffix(s, suffix) ==
    /\ Len(s) >= Len(suffix)
    /\ SubSeq(s, Len(s) - Len(suffix) + 1, Len(s)) = suffix

TrimSuffix(s, suffix) ==
    IF HasSuffix(s, suffix) THEN SubSeq(s, 1, Len(s) - Len(suffix)) ELSE s

RECURSIVE TrimRight(_, _)
TrimRight(s, c) ==
    IF Len(s) > 0 /\ s[Len(s)] = c THEN TrimRight(SubSeq(s, 1, Len(s) - 1), c) ELSE s

\* faulty variant: strips every trailing dot instead of one suffix
migrateRecordStateV0toV1_TrimRight(is) ==
    [is |-> Put(is, "name", TrimRight(Get(is, "name"), ".")), err |-> FALSE]

migrateRecordStateV0toV1(is) ==
    [is |-> Put(is, "name", TrimSuffix(Get(is, "name"), <<".">>)), err |-> FALSE]

\* faulty variant: the failover type is copied from the weight
migrateRecordStateV1toV2_WeightAsType(is) ==
    LET w == Get(is, "weight")
        f == Get(is, "failover")
        a == IF w # <<>> /\ w # <<"-", "1">>
             THEN Put(Put(is, "weighted_routing_policy.#", <<"1">>),
                      "weighted_routing_policy.0.weight", w)
             ELSE is
        b == IF f # <<>>
             THEN Put(Put(a, "failover_routing_policy.#", <<"1">>),
                      "failover_routing_policy.0.type", w)
             ELSE a
    IN [is |-> delete(delete(b, "weight"), "failover"), err |-> FALSE]

migrateRecordStateV1toV2(is) ==
    LET w == Get(is, "weight")
        f == Get(is, "failover")
        a == IF w # <<>> /\ w # <<"-", "1">>
             THEN Put(Put(is, "weighted_routing_policy.#", <<"1">>),
                      "weighted_routing_policy.0.weight", w)
             ELSE is
        b == IF f # <<>>
             THEN Put(Put(a, "failover_routing_policy.#", <<"1">>),
                      "failover_routing_policy.0.type", f)
             ELSE a
    IN [is |-> delete(delete(b, "weight"), "failover"), err |-> FALSE]

RecordMigrateState(v, is) ==
    CASE v = 0 -> LET v1 == migrateRecordStateV0toV1(is)
                  IN IF v1.err THEN v1 ELSE migrateRecordStateV1toV2(v1.is)
      [] v = 1 -> migrateRecordStateV1toV2(is)
      [] OTHER -> [is |-> is, err |-> TRUE]

StateVersions == 0..2
NameChars == {"w", "."}
Names == UNION {[1..n -> NameChars] : n \in 0..MaxNameLen}
Weights == {<<>>, <<"0">>, <<"-", "1">>, <<"1", "0">>}
Failovers == {<<>>, <<"P", "R", "I", "M", "A", "R", "Y">>, <<"S", "E", "C", "O", "N", "D", "A", "R", "Y">>}

Attributes(n, w, f) ==
    [k \in ((IF n = Absent THEN {} ELSE {"name"})
            \cup (IF w = Absent THEN {} ELSE {"weight"})
            \cup (IF f = Absent THEN {} ELSE {"failover"}))
       |-> CASE k = "name" -> n [] k = "weight" -> w [] OTHER -> f]

InstanceStates ==
    {Attributes(n, w, f) : n \in Names \cup {Absent},
                           w \in Weights \cup {Absent},
                           f \in Failovers \cup {Absent}}

ApplyRecordMigrateState ==
    \E v \in StateVersions, is \in InstanceStates :
        /\ fn = "none"
        /\ fn' = "RecordMigrateState"
        /\ UNCHANGED <<ruleVars, osVars>>
        /\ arg' = [v |-> v, is |-> is]
        /\ res' = RecordMigrateState(v, is)

(***************************************************************************)
(* QuickSight: calculated measure field (visual_fields.go).  A schema map  *)
(* is a function from the keys it holds to their values.                   *)
(***************************************************************************)
NilCalculatedMeasureField == [nil |-> TRUE, FieldId |-> NilPtr, Expression |-> NilPtr]

flattenCalculatedMeasureField(apiObject) ==
    IF apiObject.nil THEN <<>>
    ELSE <<[k \in ((IF apiObject.FieldId.nil THEN {} ELSE {"field_id"})
                   \cup (IF apiObject.Expression.nil THEN {} ELSE {"expression"}))
              |-> IF k = "field_id" THEN awsToString(apiObject.FieldId)
                                    ELSE awsToString(apiObject.Expression)]>>

\* faulty variant: the expression is read from the field_id key
expandCalculatedMeasureField_WrongKey(tfList) ==
    IF Len(tfList) = 0 THEN NilCalculatedMeasureField
    ELSE LET tfMap == tfList[1]
         IN [nil |-> FALSE,
             FieldId |-> IF "field_id" \in DOMAIN tfMap /\ tfMap["field_id"] # ""
                         THEN Ptr(tfMap["field_id"]) ELSE NilPtr,
             Expression |-> IF "field_id" \in DOMAIN tfMap /\ tfMap["field_id"] # ""
                            THEN Ptr(tfMap["field_id"]) ELSE NilPtr]

expandCalculatedMeasureField(tfList) ==
    IF Len(tfList) = 0 THEN NilCalculatedMeasureField
    ELSE LET tfMap == tfList[1]
         IN [nil |-> FALSE,
             FieldId |-> IF "field_id" \in DOMAIN tfMap /\ tfMap["field_id"] # ""
                         THEN Ptr(tfMap["field_id"]) ELSE NilPtr,
             Expression |-> IF "expression" \in DOMAIN tfMap /\ tfMap["expression"] # ""
                            THEN Ptr(tfMap["expression"]) ELSE NilPtr]

ApiStrings == {NilPtr, Ptr(""), Ptr("a"), Ptr("b")}
CalculatedMeasureFields ==
    {NilCalculatedMeasureField}
    \cup [nil : {FALSE}, FieldId : ApiStrings, Expression : ApiStrings]

ApplyCalculatedMeasureField ==
    \E x \in CalculatedMeasureFields :
        /\ fn = "none"
        /\ fn' = "CalculatedMeasureField"
        /\ UNCHANGED <<ruleVars, osVars>>
        /\ arg' = x
        /\ res' = expandCalculatedMeasureField(flattenCalculatedMeasureField(x))

(***************************************************************************)
(* QuickSight: date dimension field (visual_fields.go).  A value of the    *)
(* schema map carries its Go type, which a type assertion tests.  The      *)
(* column and the format configuration are converted by functions of other *)
(* files; here they are a one-element list of the pointed-to value.        *)
(***************************************************************************)
GoValue(type, v) == [type |-> type, v |-> v]

flattenDateDimensionField(apiObject) ==
    IF apiObject.nil THEN <<>>
    ELSE LET keys == {"date_granularity"}
                     \cup (IF apiObject.Column.nil THEN {} ELSE {"column"})
                     \cup (IF apiObject.FieldId.nil THEN {} ELSE {"field_id"})
                     \cup (IF apiObject.FormatConfiguration.nil THEN {}
                           ELSE {"format_configuration"})
                     \cup (IF apiObject.HierarchyId.nil THEN {} ELSE {"hierarchy_id"})
         IN <<[k \in keys |->
                 CASE k = "column" -> GoValue("[]interface{}", <<apiObject.Column.v>>)
                   [] k = "date_granularity" ->
                        GoValue("types.TimeGranularity", apiObject.DateGranularity)
                   [] k = "field_id" -> GoValue("string", awsToString(apiObject.FieldId))
                   [] k = "format_configuration" ->
                        GoValue("[]interface{}", <<apiObject.FormatConfiguration.v>>)
                   [] k = "hierarchy_id" ->
                        GoValue("string", awsToString(apiObject.HierarchyId))]>>

expandDateDimensionField(tfList) ==
    IF Len(tfList) = 0
    THEN [nil |-> TRUE, FieldId |-> NilPtr, HierarchyId |-> NilPtr, DateGranularity |-> "",
          Column |-> NilPtr, FormatConfiguration |-> NilPtr]
    ELSE LET tfMap == tfList[1]
             isString(k) == k \in DOMAIN tfMap /\ tfMap[k].type = "string" /\ tfMap[k].v # ""
             isList(k) == k \in DOMAIN tfMap /\ tfMap[k].type = "[]interface{}"
                          /\ Len(tfMap[k].v) > 0
         IN [nil |-> FALSE,
             FieldId |-> IF isString("field_id") THEN Ptr(tfMap["field_id"].v) ELSE NilPtr,
             HierarchyId |-> IF isString("hierarchy_id")
                             THEN Ptr(tfMap["hierarchy_id"].v) ELSE NilPtr,
             DateGranularity |-> IF isString("date_granularity")
                                 THEN tfMap["date_granularity"].v ELSE "",
             Column |-> IF isList("column") THEN Ptr(tfMap["column"].v[1]) ELSE NilPtr,
             FormatConfiguration |-> IF isList("format_configuration")
                                     THEN Ptr(tfMap["format_configuration"].v[1]) ELSE NilPtr]

DateDimensionFields ==
    {expandDateDimensionField(<<>>)}
    \cup [nil : {FALSE}, FieldId : ApiStrings, HierarchyId : ApiStrings,
          DateGranularity : {"", "DAY", "MONTH"},
          Column : {NilPtr, Ptr("c")}, FormatConfiguration : {NilPtr, Ptr("f")}]

ApplyDateDimensionField ==
    \E f \in DateDimensionFields :
        /\ fn = "none"
        /\ fn' = "DateDimensionField"
        /\ UNCHANGED <<ruleVars, osVars>>
        /\ arg' = f
        /\ res' = expandDateDimensionField(flattenDateDimensionField(f))

(***************************************************************************)
(* Security Hub automation rule: filter converters (part_000).             *)
(***************************************************************************)
StringType == <<"string">>
Float64Type == <<"float64">>
Int64Type == <<"int64">>
ObjectType(name) == <<"object", name>>

stringFilterAttrTypes == [comparison |-> StringType, value |-> StringType]
numberFilterAttrTypes == [eq |-> Float64Type, gte |-> Float64Type, lte |-> Float64Type]
mapFilterAttrTypes == [comparison |-> StringType, key |-> StringType, value |-> StringType]
dateRangeAttrTypes == [unit |-> StringType, value |-> Int64Type]
dateFilterAttrTypes ==
    [date_range |-> ListType(ObjectType("dateRange")), end |-> StringType, start |-> StringType]

expandStringFilter(tfList) ==
    IF Len(tfList) = 0 THEN NilSlice
    ELSE Slice([i \in 1..Len(tfList) |->
                  [Comparison |-> ValueString(tfList[i].comparison),
                   Value |-> Ptr(ValueString(tfList[i].value))]])

expandNumberFilter(tfList) ==
    IF Len(tfList) = 0 THEN NilSlice
    ELSE Slice([i \in 1..Len(tfList) |->
                  [Eq |-> IF ~tfList[i].eq.null THEN Num(ValueFloat64(tfList[i].eq)) ELSE NilNum,
                   Gte |-> IF ~tfList[i].gte.null THEN Num(ValueFloat64(tfList[i].gte)) ELSE NilNum,
                   Lte |-> IF ~tfList[i].lte.null THEN Num(ValueFloat64(tfList[i].lte)) ELSE NilNum]])

expandMapFilter(tfList) ==
    IF Len(tfList) = 0 THEN NilSlice
    ELSE Slice([i \in 1..Len(tfList) |->
                  [Comparison |-> IF ~tfList[i].comparison.null
                                  THEN ValueString(tfList[i].comparison) ELSE "",
                   Key |-> IF ~tfList[i].key.null THEN Ptr(ValueString(tfList[i].key)) ELSE NilPtr,
                   Value |-> IF ~tfList[i].value.null
                             THEN Ptr(ValueString(tfList[i].value)) ELSE NilPtr]])

NilDateRange == [nil |-> TRUE, Unit |-> "", Value |-> NilNum]

expandDateRange(tfList) ==
    IF Len(tfList) = 0 THEN NilDateRange
    ELSE LET tfObj == tfList[1]
         IN [nil |-> FALSE,
             Unit |-> IF ~tfObj.unit.null THEN ValueString(tfObj.unit) ELSE "",
             Value |-> IF ~tfObj.value.null THEN Num(Int32(ValueInt64(tfObj.value))) ELSE NilNum]

expandDateFilter(tfList) ==
    IF Len(tfList) = 0 THEN NilSlice
    ELSE Slice([i \in 1..Len(tfList) |->
                  [DateRange |-> IF ~tfList[i].date_range.null
                                 THEN expandDateRange(ElementsAs(tfList[i].date_range))
                                 ELSE NilDateRange,
                   End |-> IF ~tfList[i].end.null THEN Ptr(ValueString(tfList[i].end)) ELSE NilPtr,
                   Start |-> IF ~tfList[i].start.null
                             THEN Ptr(ValueString(tfList[i].start)) ELSE NilPtr]])

\* the flatteners return the value and whether an error diagnostic was added
FlattenSet(elemName, objs) ==
    LET sv == SetValue(ObjectType(elemName), [i \in DOMAIN objs |-> objs[i].val])
    IN [val |-> sv.val, err |-> sv.err \/ \E i \in DOMAIN objs : objs[i].err]

\* faulty variant: the value is flattened like an enum, so "" becomes null
flattenStringFilter_ValueAsEnum(apiObject) ==
    IF apiObject.nil THEN [val |-> SetNull(ObjectType("stringFilter")), err |-> FALSE]
    ELSE FlattenSet("stringFilter",
            [i \in DOMAIN apiObject.items |->
                ObjectValue(ObjectType("stringFilter"), stringFilterAttrTypes,
                   [comparison |-> StringValueToFramework(apiObject.items[i].Comparison),
                    value |-> StringValueToFramework(awsToString(apiObject.items[i].Value))])])

flattenStringFilter(apiObject) ==
    IF apiObject.nil THEN [val |-> SetNull(ObjectType("stringFilter")), err |-> FALSE]
    ELSE FlattenSet("stringFilter",
            [i \in DOMAIN apiObject.items |->
                ObjectValue(ObjectType("stringFilter"), stringFilterAttrTypes,
                   [comparison |-> StringValueToFramework(apiObject.items[i].Comparison),
                    value |-> StringToFramework(apiObject.items[i].Value)])])

flattenNumberFilter(apiObject) ==
    IF apiObject.nil THEN [val |-> SetNull(ObjectType("numberFilter")), err |-> FALSE]
    ELSE FlattenSet("numberFilter",
            [i \in DOMAIN apiObject.items |->
                ObjectValue(ObjectType("numberFilter"), numberFilterAttrTypes,
                   [eq |-> Float64ToFramework(apiObject.items[i].Eq),
                    gte |-> Float64ToFramework(apiObject.items[i].Gte),
                    lte |-> Float64ToFramework(apiObject.items[i].Lte)])])

flattenMapFilter(apiObject) ==
    IF apiObject.nil THEN [val |-> SetNull(ObjectType("mapFilter")), err |-> FALSE]
    ELSE FlattenSet("mapFilter",
            [i \in DOMAIN apiObject.items |->
                ObjectValue(ObjectType("mapFilter"), mapFilterAttrTypes,
                   [comparison |-> StringValueToFramework(apiObject.items[i].Comparison),
                    key |-> StringToFramework(apiObject.items[i].Key),
                    value |-> StringToFramework(apiObject.items[i].Value)])])

flattenDateRange(apiObject) ==
    IF apiObject.nil THEN [val |-> ListNull(ObjectType("dateRange")), err |-> FALSE]
    ELSE LET ov == ObjectValue(ObjectType("dateRange"), dateRangeAttrTypes,
                      [unit |-> StringValueToFramework(apiObject.Unit),
                       value |-> Int32ToFramework(apiObject.Value)])
             lv == ListValue(ObjectType("dateRange"), <<ov.val>>)
         IN [val |-> lv.val, err |-> ov.err \/ lv.err]

flattenDateFilter(apiObject) ==
    IF apiObject.nil THEN [val |-> SetNull(ObjectType("dateFilter")), err |-> FALSE]
    ELSE LET dr == [i \in DOMAIN apiObject.items |-> flattenDateRange(apiObject.items[i].DateRange)]
             objs == [i \in DOMAIN apiObject.items |->
                        ObjectValue(ObjectType("dateFilter"), dateFilterAttrTypes,
                           [date_range |-> dr[i].val,
                            end |-> StringToFramework(apiObject.items[i].End),
                            start |-> StringToFramework(apiObject.items[i].Start)])]
             fs == FlattenSet("dateFilter", objs)
         IN [val |-> fs.val, err |-> fs.err \/ \E i \in DOMAIN dr : dr[i].err]

(***************************************************************************)
(* Criteria: 38 attributes.  criteriaExpandFields gives, per attribute     *)
(* (the tfsdk tag of criteriaData), the struct field expandCriteria reads, *)
(* the API field it assigns and the expander it calls; criteriaFlatten-    *)
(* Fields gives, per attribute of the object flattenCriteria builds, the   *)
(* API field it reads and the flattener it calls.                          *)
(***************************************************************************)
criteriaAttrTypes ==
    [aws_account_id |-> SetType(ObjectType("stringFilter")),
     aws_account_name |-> SetType(ObjectType("stringFilter")),
     company_name |-> SetType(ObjectType("stringFilter")),
     compliance_associated_standards_id |-> SetType(ObjectType("stringFilter")),
     compliance_security_control_id |-> SetType(ObjectType("stringFilter")),
     compliance_status |-> SetType(ObjectType("stringFilter")),
     confidence |-> SetType(ObjectType("numberFilter")),
     created_at |-> SetType(ObjectType("dateFilter")),
     criticality |-> SetType(ObjectType("numberFilter")),
     description |-> SetType(ObjectType("stringFilter")),
     first_observed_at |-> SetType(ObjectType("dateFilter")),
     generator_id |-> SetType(ObjectType("stringFilter")),
     id |-> SetType(ObjectType("stringFilter")),
     last_observed_at |-> SetType(ObjectType("dateFilter")),
     note_text |-> SetType(ObjectType("stringFilter")),
     note_updated_at |-> SetType(ObjectType("dateFilter")),
     note_updated_by |-> SetType(ObjectType("stringFilter")),
     product_arn |-> SetType(ObjectType("stringFilter")),
     product_name |-> SetType(ObjectType("stringFilter")),
     record_state |-> SetType(ObjectType("stringFilter")),
     related_findings_id |-> SetType(ObjectType("stringFilter")),
     related_findings_product_arn |-> SetType(ObjectType("stringFilter")),
     resource_application_arn |-> SetType(ObjectType("stringFilter")),
     resource_application_name |-> SetType(ObjectType("stringFilter")),
     resource_details_other |-> SetType(ObjectType("mapFilter")),
     resource_id |-> SetType(ObjectType("stringFilter")),
     resource_partition |-> SetType(ObjectType("stringFilter")),
     resource_region |-> SetType(ObjectType("stringFilter")),
     resource_tags |-> SetType(ObjectType("mapFilter")),
     resource_type |-> SetType(ObjectType("stringFilter")),
     severity_label |-> SetType(ObjectType("stringFilter")),
     source_url |-> SetType(ObjectType("stringFilter")),
     title |-> SetType(ObjectType("stringFilter")),
     type |-> SetType(ObjectType("stringFilter")),
     updated_at |-> SetType(ObjectType("dateFilter")),
     user_defined_fields |-> SetType(ObjectType("mapFilter")),
     verification_state |-> SetType(ObjectType("stringFilter")),
     workflow_status |-> SetType(ObjectType("stringFilter"))]

\* faulty variant: product_arn and product_name are expanded into each other's field
criteriaExpandFields_Swapped ==
    [aws_account_id |-> [field |-> "AWSAccountId", api |-> "AwsAccountId", kind |-> "string"],
     aws_account_name |-> [field |-> "AWSAccountName", api |-> "AwsAccountName", kind |-> "string"],
     company_name |-> [field |-> "CompanyName", api |-> "CompanyName", kind |-> "string"],
     compliance_associated_standards_id |-> [field |-> "ComplianceAssociatedStandardsId", api |-> "ComplianceAssociatedStandardsId", kind |-> "string"],
     compliance_security_control_id |-> [field |-> "ComplianceSecurityControlId", api |-> "ComplianceSecurityControlId", kind |-> "string"],
     compliance_status |-> [field |-> "ComplianceStatus", api |-> "ComplianceStatus", kind |-> "string"],
     confidence |-> [field |-> "Confidence", api |-> "Confidence", kind |-> "number"],
     created_at |-> [field |-> "CreatedAt", api |-> "CreatedAt", kind |-> "date"],
     criticality |-> [field |-> "Criticality", api |-> "Criticality", kind |-> "number"],
     description |-> [field |-> "Description", api |-> "Description", kind |-> "string"],
     first_observed_at |-> [field |-> "FirstObservedAt", api |-> "FirstObservedAt", kind |-> "date"],
     generator_id |-> [field |-> "GeneratorId", api |-> "GeneratorId", kind |-> "string"],
     id |-> [field |-> "Id", api |-> "Id", kind |-> "string"],
     last_observed_at |-> [field |-> "LastObservedAt", api |-> "LastObservedAt", kind |-> "date"],
     note_text |-> [field |-> "NoteText", api |-> "NoteText", kind |-> "string"],
     note_updated_at |-> [field |-> "NoteUpdatedAt", api |-> "NoteUpdatedAt", kind |-> "date"],
     note_updated_by |-> [field |-> "NoteUpdatedBy", api |-> "NoteUpdatedBy", kind |-> "string"],
     product_arn |-> [field |-> "ProductARN", api |-> "ProductName", kind |-> "string"],
     product_name |-> [field |-> "ProductName", api |-> "ProductArn", kind |-> "string"],
     record_state |-> [field |-> "RecordState", api |-> "RecordState", kind |-> "string"],
     related_findings_id |-> [field |-> "RelatedFindingsId", api |-> "RelatedFindingsId", kind |-> "string"],
     related_findings_product_arn |-> [field |-> "RelatedFindingsProductArn", api |-> "RelatedFindingsProductArn", kind |-> "string"],
     resource_application_arn |-> [field |-> "ResourceApplicationArn", api |-> "ResourceApplicationArn", kind |-> "string"],
     resource_application_name |-> [field |-> "ResourceApplicationName", api |-> "ResourceApplicationName", kind |-> "string"],
     resource_details_other |-> [field |-> "ResourceDetailsOther", api |-> "ResourceDetailsOther", kind |-> "map"],
     resource_id |-> [field |-> "ResourceId", api |-> "ResourceId", kind |-> "string"],
     resource_partition |-> [field |-> "ResourcePartition", api |-> "ResourcePartition", kind |-> "string"],
     resource_region |-> [field |-> "ResourceRegion", api |-> "ResourceRegion", kind |-> "string"],
     resource_tags |-> [field |-> "ResourceTags", api |-> "ResourceTags", kind |-> "map"],
     resource_type |-> [field |-> "ResourceType", api |-> "ResourceType", kind |-> "string"],
     severity_label |-> [field |-> "SeverityLabel", api |-> "SeverityLabel", kind |-> "string"],
     source_url |-> [field |-> "SourceUrl", api |-> "SourceUrl", kind |-> "string"],
     title |-> [field |-> "Title", api |-> "Title", kind |-> "string"],
     type |-> [field |-> "Type", api |-> "Type", kind |-> "string"],
     updated_at |-> [field |-> "UpdatedAt", api |-> "UpdatedAt", kind |-> "date"],
     user_defined_fields |-> [field |-> "UserDefinedFields", api |-> "UserDefinedFields", kind |-> "map"],
     verification_state |-> [field |-> "VerificationState", api |-> "VerificationState", kind |-> "string"],
     workflow_status |-> [field |-> "WorkflowStatus", api |-> "WorkflowStatus", kind |-> "string"]]

criteriaExpandFields ==
    [aws_account_id |-> [field |-> "AWSAccountId", api |-> "AwsAccountId", kind |-> "string"],
     aws_account_name |-> [field |-> "AWSAccountName", api |-> "AwsAccountName", kind |-> "string"],
     company_name |-> [field |-> "CompanyName", api |-> "CompanyName", kind |-> "string"],
     compliance_associated_standards_id |-> [field |-> "ComplianceAssociatedStandardsId", api |-> "ComplianceAssociatedStandardsId", kind |-> "string"],
     compliance_security_control_id |-> [field |-> "ComplianceSecurityControlId", api |-> "ComplianceSecurityControlId", kind |-> "string"],
     compliance_status |-> [field |-> "ComplianceStatus", api |-> "ComplianceStatus", kind |-> "string"],
     confidence |-> [field |-> "Confidence", api |-> "Confidence", kind |-> "number"],
     created_at |-> [field |-> "CreatedAt", api |-> "CreatedAt", kind |-> "date"],
     criticality |-> [field |-> "Criticality", api |-> "Criticality", kind |-> "number"],
     description |-> [field |-> "Description", api |-> "Description", kind |-> "string"],
     first_observed_at |-> [field |-> "FirstObservedAt", api |-> "FirstObservedAt", kind |-> "date"],
     generator_id |-> [field |-> "GeneratorId", api |-> "GeneratorId", kind |-> "string"],
     id |-> [field |-> "Id", api |-> "Id", kind |-> "string"],
     last_observed_at |-> [field |-> "LastObservedAt", api |-> "LastObservedAt", kind |-> "date"],
     note_text |-> [field |-> "NoteText", api |-> "NoteText", kind |-> "string"],
     note_updated_at |-> [field |-> "NoteUpdatedAt", api |-> "NoteUpdatedAt", kind |-> "date"],
     note_updated_by |-> [field |-> "NoteUpdatedBy", api |-> "NoteUpdatedBy", kind |-> "string"],
     product_arn |-> [field |-> "ProductARN", api |-> "ProductArn", kind |-> "string"],
     product_name |-> [field |-> "ProductName", api |-> "ProductName", kind |-> "string"],
     record_state |-> [field |-> "RecordState", api |-> "RecordState", kind |-> "string"],
     related_findings_id |-> [field |-> "RelatedFindingsId", api |-> "RelatedFindingsId", kind |-> "string"],
     related_findings_product_arn |-> [field |-> "RelatedFindingsProductArn", api |-> "RelatedFindingsProductArn", kind |-> "string"],
     resource_application_arn |-> [field |-> "ResourceApplicationArn", api |-> "ResourceApplicationArn", kind |-> "string"],
     resource_application_name |-> [field |-> "ResourceApplicationName", api |-> "ResourceApplicationName", kind |-> "string"],
     resource_details_other |-> [field |-> "ResourceDetailsOther", api |-> "ResourceDetailsOther", kind |-> "map"],
     resource_id |-> [field |-> "ResourceId", api |-> "ResourceId", kind |-> "string"],
     resource_partition |-> [field |-> "ResourcePartition", api |-> "ResourcePartition", kind |-> "string"],
     resource_region |-> [field |-> "ResourceRegion", api |-> "ResourceRegion", kind |-> "string"],
     resource_tags |-> [field |-> "ResourceTags", api |-> "ResourceTags", kind |-> "map"],
     resource_type |-> [field |-> "ResourceType", api |-> "ResourceType", kind |-> "string"],
     severity_label |-> [field |-> "SeverityLabel", api |-> "SeverityLabel", kind |-> "string"],
     source_url |-> [field |-> "SourceUrl", api |-> "SourceUrl", kind |-> "string"],
     title |-> [field |-> "Title", api |-> "Title", kind |-> "string"],
     type |-> [field |-> "Type", api |-> "Type", kind |-> "string"],
     updated_at |-> [field |-> "UpdatedAt", api |-> "UpdatedAt", kind |-> "date"],
     user_defined_fields |-> [field |-> "UserDefinedFields", api |-> "UserDefinedFields", kind |-> "map"],
     verification_state |-> [field |-> "VerificationState", api |-> "VerificationState", kind |-> "string"],
     workflow_status |-> [field |-> "WorkflowStatus", api |-> "WorkflowStatus", kind |-> "string"]]

criteriaFlattenFields ==
    [aws_account_id |-> [api |-> "AwsAccountId", kind |-> "string"],
     aws_account_name |-> [api |-> "AwsAccountName", kind |-> "string"],
     company_name |-> [api |-> "CompanyName", kind |-> "string"],
     compliance_associated_standards_id |-> [api |-> "ComplianceAssociatedStandardsId", kind |-> "string"],
     compliance_security_control_id |-> [api |-> "ComplianceSecurityControlId", kind |-> "string"],
     compliance_status |-> [api |-> "ComplianceStatus", kind |-> "string"],
     confidence |-> [api |-> "Confidence", kind |-> "number"],
     created_at |-> [api |-> "CreatedAt", kind |-> "date"],
     criticality |-> [api |-> "Criticality", kind |-> "number"],
     description |-> [api |-> "Description", kind |-> "string"],
     first_observed_at |-> [api |-> "FirstObservedAt", kind |-> "date"],
     generator_id |-> [api |-> "GeneratorId", kind |-> "string"],
     id |-> [api |-> "Id", kind |-> "string"],
     last_observed_at |-> [api |-> "LastObservedAt", kind |-> "date"],
     note_text |-> [api |-> "NoteText", kind |-> "string"],
     note_updated_at |-> [api |-> "NoteUpdatedAt", kind |-> "date"],
     note_updated_by |-> [api |-> "NoteUpdatedBy", kind |-> "string"],
     product_arn |-> [api |-> "ProductArn", kind |-> "string"],
     product_name |-> [api |-> "ProductName", kind |-> "string"],
     record_state |-> [api |-> "RecordState", kind |-> "string"],
     related_findings_id |-> [api |-> "RelatedFindingsId", kind |-> "string"],
     related_findings_product_arn |-> [api |-> "RelatedFindingsProductArn", kind |-> "string"],
     resource_application_arn |-> [api |-> "ResourceApplicationArn", kind |-> "string"],
     resource_application_name |-> [api |-> "ResourceApplicationName", kind |-> "string"],
     resource_details_other |-> [api |-> "ResourceDetailsOther", kind |-> "map"],
     resource_id |-> [api |-> "ResourceId", kind |-> "string"],
     resource_partition |-> [api |-> "ResourcePartition", kind |-> "string"],
     resource_region |-> [api |-> "ResourceRegion", kind |-> "string"],
     resource_tags |-> [api |-> "ResourceTags", kind |-> "map"],
     resource_type |-> [api |-> "ResourceType", kind |-> "string"],
     severity_label |-> [api |-> "SeverityLabel", kind |-> "string"],
     source_url |-> [api |-> "SourceUrl", kind |-> "string"],
     title |-> [api |-> "Title", kind |-> "string"],
     type |-> [api |-> "Type", kind |-> "string"],
     updated_at |-> [api |-> "UpdatedAt", kind |-> "date"],
     user_defined_fields |-> [api |-> "UserDefinedFields", kind |-> "map"],
     verification_state |-> [api |-> "VerificationState", kind |-> "string"],
     workflow_status |-> [api |-> "WorkflowStatus", kind |-> "string"]]

CriteriaAttrs == DOMAIN criteriaAttrTypes
FilterFields == {criteriaFlattenFields[a].api : a \in CriteriaAttrs}

ExpandFilter(kind, tfList) ==
    CASE kind = "string" -> expandStringFilter(tfList)
      [] kind = "number" -> expandNumberFilter(tfList)
      [] kind = "map" -> expandMapFilter(tfList)
      [] kind = "date" -> expandDateFilter(tfList)

FlattenFilter(kind, apiObject) ==
    CASE kind = "string" -> flattenStringFilter(apiObject)
      [] kind = "number" -> flattenNumberFilter(apiObject)
      [] kind = "map" -> flattenMapFilter(apiObject)
      [] kind = "date" -> flattenDateFilter(apiObject)

\* *AutomationRulesFindingFilters: nil, or the filter list of every field
NilFilters == [nil |-> TRUE, fields |-> [f \in FilterFields |-> NilSlice]]

\* returns the API object and whether an error diagnostic was added
expandCriteria(tfList) ==
    IF Len(tfList) = 0 THEN [val |-> NilFilters, err |-> FALSE]
    ELSE LET tfObj == tfList[1]
             src(f) == {a \in CriteriaAttrs : criteriaExpandFields[a].api = f /\ ~tfObj[a].null}
         IN IF \E a \in CriteriaAttrs : ~tfObj[a].null /\ ElementsAsErr(tfObj[a])
            THEN [val |-> NilFilters, err |-> TRUE]
            ELSE [val |-> [nil |-> FALSE,
                           fields |-> [f \in FilterFields |->
                              IF src(f) = {} THEN NilSlice
                              ELSE LET a == CHOOSE a \in src(f) : TRUE
                                   IN ExpandFilter(criteriaExpandFields[a].kind,
                                                   ElementsAs(tfObj[a]))]],
                  err |-> FALSE]

flattenCriteria(apiObject) ==
    IF apiObject.nil THEN [val |-> ListNull(ObjectType("criteria")), err |-> FALSE]
    ELSE LET fl == [a \in CriteriaAttrs |->
                      FlattenFilter(criteriaFlattenFields[a].kind,
                                    apiObject.fields[criteriaFlattenFields[a].api])]
             ov == ObjectValue(ObjectType("criteria"), criteriaAttrTypes,
                               [a \in CriteriaAttrs |-> fl[a].val])
             lv == ListValue(ObjectType("criteria"), <<ov.val>>)
         IN [val |-> lv.val, err |-> ov.err \/ lv.err \/ \E a \in CriteriaAttrs : fl[a].err]

(***************************************************************************)
(* Inputs of the filter converters: what the schema accepts.  comparison   *)
(* and value are Required, comparison is one of the enum's values.         *)
(***************************************************************************)
Object(name, attrs) == [type |-> ObjectType(name), unknown |-> FALSE, attrs |-> attrs]

StringFilterData ==
    [comparison : {StringValue("EQUALS"), StringValue("PREFIX")},
     value : {StringValue(""), StringValue("a")}]
StringFilterLists == NoDupSeqs(StringFilterData, MaxFilters)

ApplyStringFilter ==
    \E tfList \in StringFilterLists :
        /\ fn = "none"
        /\ fn' = "StringFilter"
        /\ UNCHANGED <<ruleVars, osVars>>
        /\ arg' = tfList
        /\ res' = [api |-> expandStringFilter(tfList),
                   tf |-> flattenStringFilter(expandStringFilter(tfList))]

SampleElems(kind) ==
    CASE kind = "string" ->
           {Object("stringFilter", [comparison |-> StringValue("EQUALS"), value |-> StringValue("a")])}
      [] kind = "number" ->
           {Object("numberFilter", [eq |-> Float64Value(1), gte |-> Float64Null, lte |-> Float64Null])}
      [] kind = "map" ->
           {Object("mapFilter", [comparison |-> StringValue("EQUALS"), key |-> StringValue("k"),
                                 value |-> StringValue("v")])}
      [] kind = "date" ->
           {Object("dateFilter",
              [date_range |-> ListValue(ObjectType("dateRange"),
                                <<Object("dateRange", [unit |-> StringValue("DAYS"),
                                                       value |-> Int64Value(5)])>>).val,
               end |-> StringNull, start |-> StringNull])}

KindOf(a) == criteriaFlattenFields[a].kind
ElemTypeOf(a) == <<criteriaAttrTypes[a][2], criteriaAttrTypes[a][3]>>

\* criteria objects with at most MaxSetAttrs attributes non-null, each of
\* them an empty set or a set of one filter
RECURSIVE SubsetsUpTo(_, _)
SubsetsUpTo(S, k) ==
    IF k = 0 THEN {{}}
    ELSE LET P == SubsetsUpTo(S, k - 1) IN P \cup {T \cup {a} : T \in P, a \in S}

CriteriaWith(S, E) ==
    [a \in CriteriaAttrs |->
        IF a \in S THEN (IF a \in E THEN SetValue(ElemTypeOf(a), <<>>).val
                         ELSE [type |-> SetType(ElemTypeOf(a)), null |-> FALSE, unknown |-> FALSE,
                               elems |-> SampleElems(KindOf(a))])
        ELSE SetNull(ElemTypeOf(a))]

CriteriaData ==
    UNION {{CriteriaWith(S, E) : E \in SUBSET S} : S \in SubsetsUpTo(CriteriaAttrs, MaxSetAttrs)}

ApplyCriteria ==
    \E c \in CriteriaData :
        /\ fn = "none"
        /\ fn' = "Criteria"
        /\ UNCHANGED <<ruleVars, osVars>>
        /\ arg' = c
        /\ res' = [api |-> expandCriteria(<<c>>).val,
                   expandErr |-> expandCriteria(<<c>>).err,
                   tf |-> flattenCriteria(expandCriteria(<<c>>).val)]

(***************************************************************************)
(* Automation rule actions: converters (part_000).                         *)
(***************************************************************************)
ARNType == <<"arn">>
MapType(elemType) == <<"map">> \o elemType
MapNull(elemType) == [type |-> MapType(elemType), null |-> TRUE, unknown |-> FALSE, elems |-> <<>>]
StringToFrameworkARN(p) ==
    [type |-> ARNType, null |-> p.nil, unknown |-> FALSE, value |-> IF p.nil THEN "" ELSE p.v]

noteAttrTypes == [text |-> StringType, updated_by |-> StringType]
relatedFindingsAttrTypes == [id |-> StringType, product_arn |-> ARNType]
severityAttrTypes == [label |-> StringType, product |-> Float64Type]
workflowAttrTypes == [status |-> StringType]
findingFieldsUpdateAttrTypes ==
    [confidence |-> Int64Type,
     criticality |-> Int64Type,
     note |-> ListType(ObjectType("note")),
     related_findings |-> SetType(ObjectType("relatedFindings")),
     severity |-> ListType(ObjectType("severity")),
     types |-> ListType(StringType),
     user_defined_fields |-> MapType(StringType),
     verification_state |-> StringType,
     workflow |-> ListType(ObjectType("workflow"))]
actionsAttrTypes ==
    [finding_fields_update |-> ListType(ObjectType("findingFieldsUpdate")), type |-> StringType]

NilNote == [nil |-> TRUE, Text |-> NilPtr, UpdatedBy |-> NilPtr]
NilSeverity == [nil |-> TRUE, Label |-> "", Product |-> NilNum]
NilWorkflow == [nil |-> TRUE, Status |-> ""]
NilMap == [nil |-> TRUE, m |-> <<>>]
NilFindingFieldsUpdate ==
    [nil |-> TRUE, Confidence |-> NilNum, Criticality |-> NilNum, Note |-> NilNote,
     RelatedFindings |-> NilSlice, Severity |-> NilSeverity, Types |-> NilSlice,
     UserDefinedFields |-> NilMap, VerificationState |-> "", Workflow |-> NilWorkflow]

expandNote(tfList) ==
    IF Len(tfList) = 0 THEN NilNote
    ELSE [nil |-> FALSE,
          Text |-> Ptr(ValueString(tfList[1].text)),
          UpdatedBy |-> Ptr(ValueString(tfList[1].updated_by))]

\* faulty variant: only the first related finding is sent
expandRelatedFindings_FirstOnly(tfList) ==
    IF Len(tfList) = 0 THEN NilSlice
    ELSE Slice(<<[Id |-> Ptr(ValueString(tfList[1].id)),
                  ProductArn |-> Ptr(ValueString(tfList[1].product_arn))]>>)

expandRelatedFindings(tfList) ==
    IF Len(tfList) = 0 THEN NilSlice
    ELSE Slice([i \in 1..Len(tfList) |->
                  [Id |-> Ptr(ValueString(tfList[i].id)),
                   ProductArn |-> Ptr(ValueString(tfList[i].product_arn))]])

expandSeverity(tfList) ==
    IF Len(tfList) = 0 THEN NilSeverity
    ELSE [nil |-> FALSE,
          Label |-> IF ~tfList[1].label.null THEN ValueString(tfList[1].label) ELSE "",
          Product |-> IF ~tfList[1].product.null
                      THEN Num(ValueFloat64(tfList[1].product)) ELSE NilNum]

expandWorkflow(tfList) ==
    IF Len(tfList) = 0 THEN NilWorkflow
    ELSE [nil |-> FALSE,
          Status |-> IF ~tfList[1].status.null THEN ValueString(tfList[1].status) ELSE ""]

\* flex.ExpandFrameworkStringValueList / Map: the known elements' strings
ExpandFrameworkStringValueList(v) ==
    IF v.null \/ v.unknown THEN NilSlice
    ELSE Slice([i \in 1..Len(v.elems) |-> ValueString(v.elems[i])])
ExpandFrameworkStringValueMap(v) ==
    IF v.null \/ v.unknown THEN NilMap ELSE [nil |-> FALSE, m |-> v.elems]
\* flex.FlattenFrameworkStringValueList / Map: nil -> null
FlattenFrameworkStringValueList(vs) ==
    IF vs.nil THEN ListNull(StringType)
    ELSE ListValue(StringType, [i \in 1..Len(vs.items) |-> StringValue(vs.items[i])]).val
FlattenFrameworkStringValueMap(m) ==
    IF m.nil THEN MapNull(StringType)
    ELSE [type |-> MapType(StringType), null |-> FALSE, unknown |-> FALSE, elems |-> m.m]

\* faulty variant: confidence is sent whether or not it is configured
expandFindingFieldsUpdate_ConfidenceAlways(tfList) ==
    IF Len(tfList) = 0 THEN [val |-> NilFindingFieldsUpdate, err |-> FALSE]
    ELSE LET tfObj == tfList[1]
             bad(v) == ~v.null /\ ElementsAsErr(v)
         IN IF bad(tfObj.note) \/ bad(tfObj.related_findings) \/ bad(tfObj.severity)
               \/ bad(tfObj.workflow)
            THEN [val |-> NilFindingFieldsUpdate, err |-> TRUE]
            ELSE [val |->
                    [nil |-> FALSE,
                     Confidence |-> Num(Int32(ValueInt64(tfObj.confidence))),
                     Criticality |-> IF ~tfObj.criticality.null
                                     THEN Num(Int32(ValueInt64(tfObj.criticality))) ELSE NilNum,
                     Note |-> IF ~tfObj.note.null
                              THEN expandNote(ElementsAs(tfObj.note)) ELSE NilNote,
                     RelatedFindings |-> IF ~tfObj.related_findings.null
                                         THEN expandRelatedFindings(ElementsAs(tfObj.related_findings))
                                         ELSE NilSlice,
                     Severity |-> IF ~tfObj.severity.null
                                  THEN expandSeverity(ElementsAs(tfObj.severity)) ELSE NilSeverity,
                     Types |-> IF ~tfObj.types.null
                               THEN ExpandFrameworkStringValueList(tfObj.types) ELSE NilSlice,
                     UserDefinedFields |-> IF ~tfObj.user_defined_fields.null
                                           THEN ExpandFrameworkStringValueMap(tfObj.user_defined_fields)
                                           ELSE NilMap,
                     VerificationState |-> IF ~tfObj.verification_state.null
                                           THEN ValueString(tfObj.verification_state) ELSE "",
                     Workflow |-> IF ~tfObj.workflow.null
                                  THEN expandWorkflow(ElementsAs(tfObj.workflow)) ELSE NilWorkflow],
                  err |-> FALSE]

\* returns the API object and whether an error diagnostic was added
expandFindingFieldsUpdate(tfList) ==
    IF Len(tfList) = 0 THEN [val |-> NilFindingFieldsUpdate, err |-> FALSE]
    ELSE LET tfObj == tfList[1]
             bad(v) == ~v.null /\ ElementsAsErr(v)
         IN IF bad(tfObj.note) \/ bad(tfObj.related_findings) \/ bad(tfObj.severity)
               \/ bad(tfObj.workflow)
            THEN [val |-> NilFindingFieldsUpdate, err |-> TRUE]
            ELSE [val |->
                    [nil |-> FALSE,
                     Confidence |-> IF ~tfObj.confidence.null
                                    THEN Num(Int32(ValueInt64(tfObj.confidence))) ELSE NilNum,
                     Criticality |-> IF ~tfObj.criticality.null
                                     THEN Num(Int32(ValueInt64(tfObj.criticality))) ELSE NilNum,
                     Note |-> IF ~tfObj.note.null
                              THEN expandNote(ElementsAs(tfObj.note)) ELSE NilNote,
                     RelatedFindings |-> IF ~tfObj.related_findings.null
                                         THEN expandRelatedFindings(ElementsAs(tfObj.related_findings))
                                         ELSE NilSlice,
                     Severity |-> IF ~tfObj.severity.null
                                  THEN expandSeverity(ElementsAs(tfObj.severity)) ELSE NilSeverity,
                     Types |-> IF ~tfObj.types.null
                               THEN ExpandFrameworkStringValueList(tfObj.types) ELSE NilSlice,
                     UserDefinedFields |-> IF ~tfObj.user_defined_fields.null
                                           THEN ExpandFrameworkStringValueMap(tfObj.user_defined_fields)
                                           ELSE NilMap,
                     VerificationState |-> IF ~tfObj.verification_state.null
                                           THEN ValueString(tfObj.verification_state) ELSE "",
                     Workflow |-> IF ~tfObj.workflow.null
                                  THEN expandWorkflow(ElementsAs(tfObj.workflow)) ELSE NilWorkflow],
                  err |-> FALSE]

expandActions(tfList) ==
    IF Len(tfList) = 0 THEN [val |-> NilSlice, err |-> FALSE]
    ELSE LET ffu == [i \in 1..Len(tfList) |->
                       IF ~tfList[i].finding_fields_update.null
                       THEN IF ElementsAsErr(tfList[i].finding_fields_update)
                            THEN [val |-> NilFindingFieldsUpdate, err |-> TRUE]
                            ELSE expandFindingFieldsUpdate(ElementsAs(tfList[i].finding_fields_update))
                       ELSE [val |-> NilFindingFieldsUpdate, err |-> FALSE]]
         IN IF \E i \in DOMAIN ffu : ffu[i].err
            THEN [val |-> NilSlice, err |-> TRUE]
            ELSE [val |-> Slice([i \in 1..Len(tfList) |->
                                   [FindingFieldsUpdate |-> ffu[i].val,
                                    Type |-> IF ~tfList[i].type.null
                                             THEN ValueString(tfList[i].type) ELSE ""]]),
                  err |-> FALSE]

FlattenOne(elemName, attrTypes, obj) ==
    LET ov == ObjectValue(ObjectType(elemName), attrTypes, obj)
        lv == ListValue(ObjectType(elemName), <<ov.val>>)
    IN [val |-> lv.val, err |-> ov.err \/ lv.err]

flattenNote(apiObject) ==
    IF apiObject.nil THEN [val |-> ListNull(ObjectType("note")), err |-> FALSE]
    ELSE FlattenOne("note", noteAttrTypes,
                    [text |-> StringToFramework(apiObject.Text),
                     updated_by |-> StringToFramework(apiObject.UpdatedBy)])

flattenRelatedFindings(apiObject) ==
    IF Len(apiObject.items) = 0
    THEN [val |-> SetNull(ObjectType("relatedFindings")), err |-> FALSE]
    ELSE FlattenSet("relatedFindings",
            [i \in DOMAIN apiObject.items |->
                ObjectValue(ObjectType("relatedFindings"), relatedFindingsAttrTypes,
                   [id |-> StringToFramework(apiObject.items[i].Id),
                    product_arn |-> StringToFrameworkARN(apiObject.items[i].ProductArn)])])

flattenSeverity(apiObject) ==
    IF apiObject.nil THEN [val |-> ListNull(ObjectType("severity")), err |-> FALSE]
    ELSE FlattenOne("severity", severityAttrTypes,
                    IF ~apiObject.Product.nil
                    THEN [label |-> StringValueToFramework(apiObject.Label),
                          product |-> Float64ToFramework(apiObject.Product)]
                    ELSE [label |-> StringValueToFramework(apiObject.Label)])

flattenWorkflow(apiObject) ==
    IF apiObject.nil THEN [val |-> ListNull(ObjectType("workflow")), err |-> FALSE]
    ELSE FlattenOne("workflow", workflowAttrTypes,
                    [status |-> StringValueToFramework(apiObject.Status)])

flattenFindingFieldsUpdate(apiObject) ==
    IF apiObject.nil THEN [val |-> ListNull(ObjectType("findingFieldsUpdate")), err |-> FALSE]
    ELSE LET note == flattenNote(apiObject.Note)
             relatedFindings == flattenRelatedFindings(apiObject.RelatedFindings)
             severity == flattenSeverity(apiObject.Severity)
             workflow == flattenWorkflow(apiObject.Workflow)
             one == FlattenOne("findingFieldsUpdate", findingFieldsUpdateAttrTypes,
                       [confidence |-> Int32ToFramework(apiObject.Confidence),
                        criticality |-> Int32ToFramework(apiObject.Criticality),
                        note |-> note.val,
                        related_findings |-> relatedFindings.val,
                        severity |-> severity.val,
                        types |-> FlattenFrameworkStringValueList(apiObject.Types),
                        user_defined_fields |-> FlattenFrameworkStringValueMap(apiObject.UserDefinedFields),
                        verification_state |-> StringValueToFramework(apiObject.VerificationState),
                        workflow |-> workflow.val])
         IN [val |-> one.val,
             err |-> one.err \/ note.err \/ relatedFindings.err \/ severity.err \/ workflow.err]

flattenActions(apiObject) ==
    IF apiObject.nil THEN [val |-> SetNull(ObjectType("actions")), err |-> FALSE]
    ELSE LET ffu == [i \in DOMAIN apiObject.items |->
                       flattenFindingFieldsUpdate(apiObject.items[i].FindingFieldsUpdate)]
             fs == FlattenSet("actions",
                     [i \in DOMAIN apiObject.items |->
                        ObjectValue(ObjectType("actions"), actionsAttrTypes,
                           [finding_fields_update |-> ffu[i].val,
                            type |-> StringValueToFramework(apiObject.items[i].Type)])])
         IN [val |-> fs.val, err |-> fs.err \/ \E i \in DOMAIN ffu : ffu[i].err]

(***************************************************************************)
(* The Security Hub service and the lookup helpers of the automation rule. *)
(* A Go error is <<>> (nil) or a one-element sequence.                     *)
(***************************************************************************)
errCodeInvalidAccessException == "InvalidAccessException"
errCodeResourceNotFoundException == "ResourceNotFoundException"

\* a message is a sequence of phrases; it contains a phrase that occurs in it
ApiError(code, message) == [kind |-> "api", code |-> code, message |-> message]
ErrCodeEquals(err, code) == Len(err) > 0 /\ err[1].kind = "api" /\ err[1].code = code
ErrMessageContains(err, code, phrase) ==
    /\ ErrCodeEquals(err, code)
    /\ \E i \in DOMAIN err[1].message : err[1].message[i] = phrase

NotFoundError(lastError) == [kind |-> "NotFoundError", code |-> "", message |-> <<>>]
EmptyResultError == [kind |-> "EmptyResultError", code |-> "", message |-> <<>>]
TooManyResultsError == [kind |-> "TooManyResultsError", code |-> "", message |-> <<>>]

\* tfresource.NotFound: the error is, or converts to, a retry.NotFoundError
NotFound(err) ==
    Len(err) > 0 /\ err[1].kind \in {"NotFoundError", "EmptyResultError", "TooManyResultsError"}

\* tfresource.AssertSingleValueResult: exactly one element, or an error
AssertSingleValueResult(a) ==
    IF Len(a) = 0 THEN [val |-> <<>>, err |-> <<EmptyResultError>>]
    ELSE IF Len(a) > 1 THEN [val |-> <<>>, err |-> <<TooManyResultsError>>]
    ELSE [val |-> <<a[1]>>, err |-> <<>>]

ApiErrors ==
    {ApiError(errCodeResourceNotFoundException, <<"rule", "not found">>),
     ApiError(errCodeInvalidAccessException,
              <<"Account 1 is", "not subscribed to AWS Security Hub">>),
     ApiError(errCodeInvalidAccessException, <<"access denied">>),
     ApiError("ThrottlingException", <<"Rate exceeded">>)}

\* what BatchGetAutomationRules can answer for the ARNs asked: an error, a
\* nil output, or the rules of the account that have one of these ARNs
BatchGetAutomationRules(arns) ==
    {[err |-> <<e>>, nilOutput |-> TRUE, Rules |-> <<>>] : e \in ApiErrors}
    \cup {[err |-> <<>>, nilOutput |-> TRUE, Rules |-> <<>>],
          [err |-> <<>>, nilOutput |-> FALSE,
           Rules |-> SetToSeq({r \in remote : \E i \in DOMAIN arns : r.RuleArn = Ptr(arns[i])})]}

\* faulty variant: an account that is not subscribed is an ordinary error
findAutomationRules_NoSubscriptionCase(out) ==
    IF ErrCodeEquals(out.err, errCodeResourceNotFoundException)
    THEN [val |-> <<>>, err |-> <<NotFoundError(out.err)>>]
    ELSE IF Len(out.err) > 0 THEN [val |-> <<>>, err |-> out.err]
    ELSE IF out.nilOutput THEN [val |-> <<>>, err |-> <<EmptyResultError>>]
    ELSE [val |-> out.Rules, err |-> <<>>]

\* out: the answer of conn.BatchGetAutomationRules
findAutomationRules(out) ==
    IF \/ ErrCodeEquals(out.err, errCodeResourceNotFoundException)
       \/ ErrMessageContains(out.err, errCodeInvalidAccessException,
                             "not subscribed to AWS Security Hub")
    THEN [val |-> <<>>, err |-> <<NotFoundError(out.err)>>]
    ELSE IF Len(out.err) > 0 THEN [val |-> <<>>, err |-> out.err]
    ELSE IF out.nilOutput THEN [val |-> <<>>, err |-> <<EmptyResultError>>]
    ELSE [val |-> out.Rules, err |-> <<>>]

findAutomationRule(out) ==
    LET output == findAutomationRules(out)
    IN IF Len(output.err) > 0 THEN [val |-> <<>>, err |-> output.err]
       ELSE AssertSingleValueResult(output.val)

\* the input of the lookup: the one ARN asked for
findAutomationRuleByARN(arn) == <<arn>>

(***************************************************************************)
(* Spec: the life cycle of one automation rule resource.  calls is the log *)
(* of the steps the running handler has taken; pc is the handler's         *)
(* position; diags says whether the response holds an error diagnostic.    *)
(***************************************************************************)
SeverityBlock(product) ==
    ListValue(ObjectType("severity"),
              <<Object("severity", [label |-> StringValue("HIGH"), product |-> product])>>).val

FindingFieldsUpdateBlock(severity) ==
    ListValue(ObjectType("findingFieldsUpdate"),
       <<Object("findingFieldsUpdate",
           [confidence |-> Int64Value(10),
            criticality |-> Int64Null,
            note |-> ListNull(ObjectType("note")),
            related_findings |-> SetNull(ObjectType("relatedFindings")),
            severity |-> severity,
            types |-> ListNull(StringType),
            user_defined_fields |-> MapNull(StringType),
            verification_state |-> StringNull,
            workflow |-> ListNull(ObjectType("workflow"))])>>).val

ActionsBlock(severity) ==
    SetValue(ObjectType("actions"),
       <<Object("actions", [finding_fields_update |-> FindingFieldsUpdateBlock(severity),
                            type |-> StringValue("FINDING_FIELDS_UPDATE")])>>).val

CriteriaBlock(attrs) ==
    ListValue(ObjectType("criteria"), <<Object("criteria", CriteriaWith(attrs, {}))>>).val

\* the plans handed to Create: rule_status is unknown unless configured; a
\* block may reach the handler as an unknown value; the rule configured as
\* DISABLED is the one with a rule_order beyond the API's integer width
Plans ==
    {[p EXCEPT !.RuleOrder = IF p.RuleStatus = StringValue("DISABLED")
                             THEN Int64Value(40000) ELSE Int64Value(1)] :
       p \in [Actions : {ActionsBlock(SeverityBlock(Float64Value(1))),
                         ActionsBlock(SeverityBlock(Float64Null)),
                         SetUnknown(ObjectType("actions"))},
              ARN : {StringUnknown},
              Criteria : {CriteriaBlock({"severity_label"}),
                          ListUnknown(ObjectType("criteria"))},
              Description : {StringValue("d")},
              ID : {StringUnknown},
              IsTerminal : {BoolValue(FALSE)},
              RuleName : {StringValue("n")},
              RuleOrder : {Int64Value(1)},
              RuleStatus : {StringUnknown, StringValue("DISABLED")}]}

RuleArn(n) == "arn:aws:securityhub:automation-rule/" \o ToString(n)

Step(op, ok) == [op |-> op, ok |-> ok]

\* the rule the service stores for a request: a status left empty is ENABLED
NewRule(arn, in) ==
    [RuleArn |-> Ptr(arn),
     Actions |-> in.Actions,
     Criteria |-> in.Criteria,
     Description |-> in.Description,
     IsTerminal |-> in.IsTerminal,
     RuleName |-> in.RuleName,
     RuleOrder |-> in.RuleOrder,
     RuleStatus |-> IF in.RuleStatus = "" THEN "ENABLED" ELSE in.RuleStatus]

\* Create up to the call: read the plan and build CreateAutomationRuleInput
CreateExpand ==
    /\ pc = "idle" /\ Len(state) = 0 /\ issued < MaxCreates
    /\ \E plan \in Plans :
         LET actions == IF plan.Actions.null THEN [val |-> NilSlice, err |-> FALSE]
                        ELSE IF ElementsAsErr(plan.Actions) THEN [val |-> NilSlice, err |-> TRUE]
                        ELSE expandActions(ElementsAs(plan.Actions))
             criteria == IF plan.Criteria.null THEN [val |-> NilFilters, err |-> FALSE]
                         ELSE IF ElementsAsErr(plan.Criteria)
                              THEN [val |-> NilFilters, err |-> TRUE]
                              ELSE expandCriteria(ElementsAs(plan.Criteria))
             in == [Description |-> Ptr(ValueString(plan.Description)),
                    IsTerminal |-> ValueBool(plan.IsTerminal),
                    RuleName |-> Ptr(ValueString(plan.RuleName)),
                    RuleOrder |-> Num(Int32(ValueInt64(plan.RuleOrder))),
                    Actions |-> actions.val,
                    Criteria |-> criteria.val,
                    RuleStatus |-> IF ~plan.RuleStatus.null
                                   THEN ValueString(plan.RuleStatus) ELSE ""]
         IN /\ data' = <<plan>>
            /\ IF actions.err \/ criteria.err
               THEN /\ diags' = TRUE
                    /\ calls' = <<Step("expand", FALSE)>>
                    /\ input' = <<>>
                    /\ pc' = "idle"
               ELSE /\ diags' = FALSE
                    /\ calls' = <<Step("expand", TRUE)>>
                    /\ input' = <<in>>
                    /\ pc' = "create_call"
    /\ lastOp' = "Create"
    /\ readOut' = <<>>
    /\ UNCHANGED <<remote, state, issued, updates, fnVars, osVars>>

\* faulty variant: the id is left as planned
CreateCall_IdNotSet ==
    /\ pc = "create_call"
    /\ \E answer \in {"ok", "error", "nil"} :
         IF answer = "ok"
         THEN LET out == [RuleArn |-> Ptr(RuleArn(issued + 1))]
              IN /\ issued' = issued + 1
                 /\ remote' = remote \cup {NewRule(RuleArn(issued + 1), input[1])}
                 /\ data' = <<[data[1] EXCEPT !.ARN = StringToFramework(out.RuleArn)]>>
                 /\ calls' = Append(calls, Step("CreateAutomationRule", TRUE))
                 /\ pc' = "create_readback"
                 /\ UNCHANGED diags
         ELSE /\ diags' = TRUE
              /\ calls' = Append(calls, Step("CreateAutomationRule", FALSE))
              /\ pc' = "idle"
              /\ UNCHANGED <<issued, remote, data>>
    /\ lastOp' = "Create"
    /\ UNCHANGED <<state, readOut, input, updates, fnVars, osVars>>

\* conn.CreateAutomationRule and the checks of its answer
CreateCall ==
    /\ pc = "create_call"
    /\ \E answer \in {"ok", "error", "nil"} :
         IF answer = "ok"
         THEN LET out == [RuleArn |-> Ptr(RuleArn(issued + 1))]
              IN /\ issued' = issued + 1
                 /\ remote' = remote \cup {NewRule(RuleArn(issued + 1), input[1])}
                 /\ data' = <<[data[1] EXCEPT !.ARN = StringToFramework(out.RuleArn),
                                              !.ID = StringToFramework(out.RuleArn)]>>
                 /\ calls' = Append(calls, Step("CreateAutomationRule", TRUE))
                 /\ pc' = "create_readback"
                 /\ UNCHANGED diags
         ELSE /\ diags' = TRUE
              /\ calls' = Append(calls, Step("CreateAutomationRule", FALSE))
              /\ pc' = "idle"
              /\ UNCHANGED <<issued, remote, data>>
    /\ lastOp' = "Create"
    /\ UNCHANGED <<state, readOut, input, updates, fnVars, osVars>>

\* faulty variant: the error of the read-back is dropped and the state is written
CreateReadBack_ErrorDropped ==
    /\ pc = "create_readback"
    /\ \E out \in BatchGetAutomationRules(findAutomationRuleByARN(ValueString(data[1].ARN))) :
         LET found == findAutomationRule(out)
             status == IF Len(found.err) > 0 THEN "" ELSE found.val[1].RuleStatus
         IN /\ readOut' = <<out>>
            /\ data' = <<[data[1] EXCEPT !.RuleStatus = StringValueToFramework(status)]>>
            /\ state' = data'
            /\ calls' = calls \o <<Step("findAutomationRuleByARN", Len(found.err) = 0),
                                   Step("State.Set", TRUE)>>
            /\ UNCHANGED diags
    /\ pc' = "idle"
    /\ lastOp' = "Create"
    /\ UNCHANGED <<remote, input, issued, updates, fnVars, osVars>>

\* faulty variant: the planned rule_status is written to state
CreateReadBack_PlannedStatus ==
    /\ pc = "create_readback"
    /\ \E out \in BatchGetAutomationRules(findAutomationRuleByARN(ValueString(data[1].ARN))) :
         LET found == findAutomationRule(out)
         IN /\ readOut' = <<out>>
            /\ IF Len(found.err) > 0
               THEN /\ diags' = TRUE
                    /\ calls' = Append(calls, Step("findAutomationRuleByARN", FALSE))
                    /\ UNCHANGED <<data, state>>
               ELSE /\ data' = data
                    /\ state' = data'
                    /\ calls' = calls \o <<Step("findAutomationRuleByARN", TRUE),
                                           Step("State.Set", TRUE)>>
                    /\ UNCHANGED diags
    /\ pc' = "idle"
    /\ lastOp' = "Create"
    /\ UNCHANGED <<remote, input, issued, updates, fnVars, osVars>>

\* Create after the call: the read-back, then rule_status and State.Set
CreateReadBack ==
    /\ pc = "create_readback"
    /\ \E out \in BatchGetAutomationRules(findAutomationRuleByARN(ValueString(data[1].ARN))) :
         LET found == findAutomationRule(out)
         IN /\ readOut' = <<out>>
            /\ IF Len(found.err) > 0
               THEN /\ diags' = TRUE
                    /\ calls' = Append(calls, Step("findAutomationRuleByARN", FALSE))
                    /\ UNCHANGED <<data, state>>
               ELSE /\ data' = <<[data[1] EXCEPT !.RuleStatus =
                                     StringValueToFramework(found.val[1].RuleStatus)]>>
                    /\ state' = data'
                    /\ calls' = calls \o <<Step("findAutomationRuleByARN", TRUE),
                                           Step("State.Set", TRUE)>>
                    /\ UNCHANGED diags
    /\ pc' = "idle"
    /\ lastOp' = "Create"
    /\ UNCHANGED <<remote, input, issued, updates, fnVars, osVars>>

\* flex.BoolToFramework of the rule's IsTerminal, which the service always gives
BoolToFramework(b) == BoolValue(b)

\* Read: the lookup by the id in state, then the flattening and State.Set
Read ==
    /\ pc = "idle" /\ Len(state) = 1
    /\ \E out \in BatchGetAutomationRules(findAutomationRuleByARN(ValueString(state[1].ID))) :
         LET found == findAutomationRule(out)
         IN /\ readOut' = <<out>>
            /\ IF NotFound(found.err)
               THEN /\ state' = <<>>
                    /\ data' = state
                    /\ diags' = FALSE
                    /\ calls' = <<Step("findAutomationRuleByARN", FALSE),
                                  Step("State.RemoveResource", TRUE)>>
               ELSE IF Len(found.err) > 0
               THEN /\ diags' = TRUE
                    /\ data' = state
                    /\ calls' = <<Step("findAutomationRuleByARN", FALSE)>>
                    /\ UNCHANGED state
               ELSE LET rule == found.val[1]
                        actions == flattenActions(rule.Actions)
                        criteria == flattenCriteria(rule.Criteria)
                    IN /\ data' = <<[ARN |-> StringToFramework(rule.RuleArn),
                                     Actions |-> actions.val,
                                     Criteria |-> criteria.val,
                                     Description |-> StringToFramework(rule.Description),
                                     ID |-> StringToFramework(rule.RuleArn),
                                     IsTerminal |-> BoolToFramework(rule.IsTerminal),
                                     RuleName |-> StringToFramework(rule.RuleName),
                                     RuleOrder |-> Int32ToFramework(rule.RuleOrder),
                                     RuleStatus |-> StringValueToFramework(rule.RuleStatus)]>>
                       /\ state' = data'
                       /\ diags' = (actions.err \/ criteria.err)
                       /\ calls' = <<Step("findAutomationRuleByARN", TRUE),
                                     Step("State.Set", TRUE)>>
    /\ lastOp' = "Read"
    /\ input' = <<>>
    /\ UNCHANGED <<pc, remote, issued, updates, fnVars, osVars>>

\* faulty variant: a rule that is already gone is an error
Delete_NotFoundIsError ==
    /\ pc = "idle" /\ Len(state) = 1
    /\ \E answer \in {"ok", errCodeResourceNotFoundException, "ThrottlingException"} :
         /\ remote' = IF answer = "ok"
                      THEN {r \in remote : r.RuleArn # Ptr(ValueString(state[1].ARN))}
                      ELSE remote
         /\ calls' = <<Step("BatchDeleteAutomationRules", answer = "ok")>>
         /\ readOut' = <<[err |-> IF answer = "ok" THEN <<>> ELSE <<ApiError(answer, <<>>)>>]>>
         /\ IF answer \in {"ok"}
            THEN diags' = FALSE /\ state' = <<>>
            ELSE diags' = TRUE /\ UNCHANGED state
    /\ data' = state
    /\ lastOp' = "Delete"
    /\ input' = <<>>
    /\ UNCHANGED <<pc, issued, updates, fnVars, osVars>>

\* Delete: BatchDeleteAutomationRules, whose error is kept in readOut; the
\* framework drops the state when the handler returns without an error
\* diagnostic
Delete ==
    /\ pc = "idle" /\ Len(state) = 1
    /\ \E answer \in {"ok", errCodeResourceNotFoundException, "ThrottlingException"} :
         /\ remote' = IF answer = "ok"
                      THEN {r \in remote : r.RuleArn # Ptr(ValueString(state[1].ARN))}
                      ELSE remote
         /\ calls' = <<Step("BatchDeleteAutomationRules", answer = "ok")>>
         /\ readOut' = <<[err |-> IF answer = "ok" THEN <<>> ELSE <<ApiError(answer, <<>>)>>]>>
         /\ IF answer \in {"ok", errCodeResourceNotFoundException}
            THEN diags' = FALSE /\ state' = <<>>
            ELSE diags' = TRUE /\ UNCHANGED state
    /\ data' = state
    /\ lastOp' = "Delete"
    /\ input' = <<>>
    /\ UNCHANGED <<pc, issued, updates, fnVars, osVars>>

\* the actions block of the configuration behind a prior state: the state's
\* own, unless a failed flattening left a value there that no plan can hold
ConfiguredActions(old) ==
    IF ElementsAsErr(old.Actions) \/ expandActions(ElementsAs(old.Actions)).err
    THEN ActionsBlock(SeverityBlock(Float64Null))
    ELSE old.Actions

\* the plans handed to Update for a prior state: nothing tracked changed
\* (tags only), or the description, rule_status or actions changed; id, arn
\* and an unconfigured rule_status come from the state, and the blocks are
\* known when a plan is applied
UpdatePlans(old) ==
    LET same == [old EXCEPT !.Actions = ConfiguredActions(old)]
    IN {same,
        [same EXCEPT !.Description = StringValue("e")],
        [same EXCEPT !.RuleStatus = StringValue("DISABLED")],
        [same EXCEPT !.Actions = ActionsBlock(SeverityBlock(Float64Value(2)))]}

\* faulty variant: rule_status is not compared
UpdateFieldsDiffer_StatusForgotten(new, old) ==
    \/ new.Actions # old.Actions
    \/ new.Criteria # old.Criteria
    \/ new.Description # old.Description
    \/ new.IsTerminal # old.IsTerminal
    \/ new.RuleName # old.RuleName
    \/ new.RuleOrder # old.RuleOrder

\* one of the seven tracked attributes is not Equal in plan and prior state
UpdateFieldsDiffer(new, old) ==
    \/ new.Actions # old.Actions
    \/ new.Criteria # old.Criteria
    \/ new.Description # old.Description
    \/ new.IsTerminal # old.IsTerminal
    \/ new.RuleName # old.RuleName
    \/ new.RuleOrder # old.RuleOrder
    \/ new.RuleStatus # old.RuleStatus

\* what BatchUpdateAutomationRules can answer: an error, a nil output, or an
\* output that lists the rule as processed or, changing nothing, as unprocessed
BatchUpdateAutomationRules(item) ==
    {"error", "nil", "unprocessed"}
    \cup (IF \E r \in remote : r.RuleArn = item.RuleArn THEN {"processed"} ELSE {})

\* the rule after a processed update item: a field left out keeps its value
UpdatedRule(r, item) ==
    [RuleArn |-> r.RuleArn,
     Actions |-> IF item.Actions.nil THEN r.Actions ELSE item.Actions,
     Criteria |-> IF item.Criteria.nil THEN r.Criteria ELSE item.Criteria,
     Description |-> item.Description,
     IsTerminal |-> item.IsTerminal,
     RuleName |-> item.RuleName,
     RuleOrder |-> item.RuleOrder,
     RuleStatus |-> IF item.RuleStatus = "" THEN r.RuleStatus ELSE item.RuleStatus]

\* faulty variant: a nil output is taken for a success
UpdateResult_NilOutputAccepted(new, item, expandErr, differ, answer) ==
    IF ~differ THEN [calls |-> <<Step("State.Set", TRUE)>>, diags |-> FALSE, sent |-> <<>>]
    ELSE IF expandErr
    THEN [calls |-> <<Step("expand", FALSE)>>, diags |-> TRUE, sent |-> <<>>]
    ELSE IF answer = "error"
    THEN [calls |-> <<Step("expand", TRUE), Step("BatchUpdateAutomationRules", FALSE)>>,
          diags |-> TRUE, sent |-> <<item>>]
    ELSE [calls |-> <<Step("expand", TRUE), Step("BatchUpdateAutomationRules", answer # "nil"),
                      Step("State.Set", TRUE)>>,
          diags |-> FALSE, sent |-> <<item>>]

\* the steps Update takes, whether it adds an error diagnostic, and the item
\* it sends; State.Set is its last step
UpdateResult(new, item, expandErr, differ, answer) ==
    IF ~differ THEN [calls |-> <<Step("State.Set", TRUE)>>, diags |-> FALSE, sent |-> <<>>]
    ELSE IF expandErr
    THEN [calls |-> <<Step("expand", FALSE)>>, diags |-> TRUE, sent |-> <<>>]
    ELSE IF answer \in {"error", "nil"}
    THEN [calls |-> <<Step("expand", TRUE), Step("BatchUpdateAutomationRules", FALSE)>>,
          diags |-> TRUE, sent |-> <<item>>]
    ELSE [calls |-> <<Step("expand", TRUE), Step("BatchUpdateAutomationRules", TRUE),
                      Step("State.Set", TRUE)>>,
          diags |-> FALSE, sent |-> <<item>>]

Update ==
    /\ pc = "idle" /\ Len(state) = 1 /\ updates < MaxUpdates
    /\ \E new \in UpdatePlans(state[1]) :
         LET old == state[1]
             actions == IF new.Actions.null THEN [val |-> NilSlice, err |-> FALSE]
                        ELSE IF ElementsAsErr(new.Actions) THEN [val |-> NilSlice, err |-> TRUE]
                        ELSE expandActions(ElementsAs(new.Actions))
             criteria == IF new.Criteria.null THEN [val |-> NilFilters, err |-> FALSE]
                         ELSE IF ElementsAsErr(new.Criteria)
                              THEN [val |-> NilFilters, err |-> TRUE]
                              ELSE expandCriteria(ElementsAs(new.Criteria))
             item == [Description |-> Ptr(ValueString(new.Description)),
                      IsTerminal |-> ValueBool(new.IsTerminal),
                      RuleArn |-> Ptr(ValueString(new.ARN)),
                      RuleName |-> Ptr(ValueString(new.RuleName)),
                      RuleOrder |-> Num(Int32(ValueInt64(new.RuleOrder))),
                      Actions |-> actions.val,
                      Criteria |-> criteria.val,
                      RuleStatus |-> IF ~new.RuleStatus.null
                                     THEN ValueString(new.RuleStatus) ELSE ""]
         IN \E answer \in BatchUpdateAutomationRules(item) :
              LET result == UpdateResult(new, item, actions.err \/ criteria.err,
                                         UpdateFieldsDiffer(new, old), answer)
                  called == \E i \in DOMAIN result.calls :
                               result.calls[i].op = "BatchUpdateAutomationRules"
              IN /\ data' = <<new>>
                 /\ calls' = result.calls
                 /\ diags' = result.diags
                 /\ input' = result.sent
                 /\ state' = IF result.calls[Len(result.calls)].op = "State.Set"
                             THEN <<new>> ELSE state
                 /\ remote' = IF called /\ answer = "processed"
                              THEN {IF r.RuleArn = item.RuleArn THEN UpdatedRule(r, item) ELSE r :
                                      r \in remote}
                              ELSE remote
    /\ lastOp' = "Update"
    /\ updates' = updates + 1
    /\ readOut' = <<>>
    /\ UNCHANGED <<pc, issued, fnVars, osVars>>

\* the rule is deleted outside of Terraform
ExternalDelete ==
    /\ \E r \in remote : remote' = remote \ {r}
    /\ lastOp' = "ExternalDelete"
    /\ UNCHANGED <<state, diags, pc, data, calls, readOut, input, issued, updates, fnVars, osVars>>

(***************************************************************************)
(* SpecOS: OpenSearch authorize-VPC-endpoint-access resources.  principals *)
(* is what the service holds: the accounts authorized on each domain.      *)
(***************************************************************************)
OSResources == {"r1", "r2", "r3"}
OSConfig ==
    [r1 |-> [account |-> "A", domain_name |-> "D"],
     r2 |-> [account |-> "B", domain_name |-> "D"],
     r3 |-> [account |-> "A", domain_name |-> "E"]]

AuthorizedPrincipal(account) == [Principal |-> Ptr(account), PrincipalType |-> "AWS_ACCOUNT"]

\* the pages ListVpcEndpointAccess can give for a list of principals
Pagings(list) ==
    {<<[nil |-> FALSE, AuthorizedPrincipalList |-> list]>>}
    \cup (IF Len(list) = 0 THEN {<<[nil |-> TRUE, AuthorizedPrincipalList |-> <<>>]>>}
          ELSE {[i \in 1..Len(list) |->
                   [nil |-> FALSE, AuthorizedPrincipalList |-> <<list[i]>>]]})

\* what ListVpcEndpointAccess can answer for a domain
ListVpcEndpointAccess(domainName) ==
    LET list == SetToSeq({AuthorizedPrincipal(p.account) :
                             p \in {q \in principals : q.domain_name = domainName}})
    IN {[err |-> <<ApiError("InternalException", <<"internal error">>)>>, pages |-> <<>>]}
       \cup {[err |-> <<>>, pages |-> pages] : pages \in Pagings(list)}

\* faulty variant: a nil page ends the paging
PageCallback_StopsAtNilPage(output, page, lastPage) ==
    IF page.nil THEN [output |-> output, continue |-> FALSE]
    ELSE [output |-> output \o page.AuthorizedPrincipalList, continue |-> ~lastPage]

\* the page callback: the output so far with the page appended, and whether
\* to go on to the next page
PageCallback(output, page, lastPage) ==
    IF page.nil THEN [output |-> output, continue |-> ~lastPage]
    ELSE [output |-> output \o page.AuthorizedPrincipalList, continue |-> ~lastPage]

\* the paginator: the callback on every page, in order, while it asks to go on
RECURSIVE listVPCEndpointAccessPages(_, _, _)
listVPCEndpointAccessPages(pages, i, output) ==
    IF i > Len(pages) THEN output
    ELSE LET step == PageCallback(output, pages[i], i = Len(pages))
         IN IF step.continue THEN listVPCEndpointAccessPages(pages, i + 1, step.output)
            ELSE step.output

findAuthorizeVpcEndpointAccesses(answer) ==
    IF Len(answer.err) > 0 THEN [val |-> <<>>, err |-> answer.err]
    ELSE [val |-> listVPCEndpointAccessPages(answer.pages, 1, <<>>), err |-> <<>>]

findAuthorizeVpcEndpointAccess(answer) ==
    LET output == findAuthorizeVpcEndpointAccesses(answer)
    IN IF Len(output.err) > 0 THEN [val |-> <<>>, err |-> output.err]
       ELSE AssertSingleValueResult(output.val)

\* the input of the lookup: the domain name only
findAuthorizeVpcEndpointAccessByName(domainName) == domainName

\* fwflex.Flatten of the AuthorizeVpcEndpointAccess output into the plan
FlattenAuthorizeOutput(out, plan) ==
    [plan EXCEPT !.AuthorizedPrincipal =
        ListValue(ObjectType("authorizedPrincipal"),
           <<Object("authorizedPrincipal",
                [principal |-> StringToFramework(out.AuthorizedPrincipal.Principal),
                 principal_type |->
                     StringValueToFramework(out.AuthorizedPrincipal.PrincipalType)])>>).val]

\* fwflex.Flatten of one AuthorizedPrincipal into the resource data: no
\* field of the data has the name of a field of the principal
FlattenPrincipal(out, st) == st

OSStep(op, r, answer, prior, d) ==
    <<[op |-> op, r |-> r, answer |-> answer, prior |-> prior, diags |-> d]>>
NoAnswer == [err |-> <<>>, pages |-> <<>>]

OSCreate ==
    \E r \in OSResources, answer \in {"ok", "error", "empty"} :
        LET plan == [Account |-> StringValue(OSConfig[r].account),
                     DomainName |-> StringValue(OSConfig[r].domain_name),
                     AuthorizedPrincipal |-> ListUnknown(ObjectType("authorizedPrincipal"))]
            out == [AuthorizedPrincipal |-> AuthorizedPrincipal(ValueString(plan.Account))]
        IN /\ osState[r] = <<>>
           /\ IF answer = "ok"
              THEN /\ principals' = principals \cup
                          {[domain_name |-> ValueString(plan.DomainName),
                            account |-> ValueString(plan.Account)]}
                   /\ osState' = [osState EXCEPT ![r] = <<FlattenAuthorizeOutput(out, plan)>>]
              ELSE UNCHANGED <<principals, osState>>
           /\ osOut' = OSStep("Create", r, NoAnswer, osState[r], answer # "ok")
           /\ UNCHANGED <<fnVars, ruleVars>>

\* the state Read leaves and whether it adds an error diagnostic
OSReadOutcome(st, answer) ==
    LET found == findAuthorizeVpcEndpointAccess(answer)
    IN IF NotFound(found.err) THEN [state |-> <<>>, diags |-> FALSE]
       ELSE IF Len(found.err) > 0 THEN [state |-> st, diags |-> TRUE]
       ELSE [state |-> <<FlattenPrincipal(found.val[1], st[1])>>, diags |-> FALSE]

OSRead ==
    \E r \in OSResources :
        /\ osState[r] # <<>>
        /\ \E answer \in ListVpcEndpointAccess(
                 findAuthorizeVpcEndpointAccessByName(ValueString(osState[r][1].DomainName))) :
             LET outcome == OSReadOutcome(osState[r], answer)
             IN /\ osState' = [osState EXCEPT ![r] = outcome.state]
                /\ osOut' = OSStep("Read", r, answer, osState[r], outcome.diags)
        /\ UNCHANGED <<principals, fnVars, ruleVars>>

\* Delete: RevokeVpcEndpointAccess, whose error is kept as the step's answer;
\* the framework drops the state when the handler returns without an error
\* diagnostic
OSDelete ==
    \E r \in OSResources, answer \in {"ok", errCodeResourceNotFoundException, "InternalException"} :
        /\ osState[r] # <<>>
        /\ principals' = IF answer = "ok"
                         THEN principals \ {[domain_name |-> ValueString(osState[r][1].DomainName),
                                             account |-> ValueString(osState[r][1].Account)]}
                         ELSE principals
        /\ osState' = IF answer \in {"ok", errCodeResourceNotFoundException}
                      THEN [osState EXCEPT ![r] = <<>>] ELSE osState
        /\ osOut' = OSStep("Delete", r,
                           [err |-> IF answer = "ok" THEN <<>> ELSE <<ApiError(answer, <<>>)>>,
                            pages |-> <<>>],
                           osState[r],
                           answer \notin {"ok", errCodeResourceNotFoundException})
        /\ UNCHANGED <<fnVars, ruleVars>>

\* an authorization is revoked outside of Terraform
OSExternalRevoke ==
    /\ \E p \in principals : principals' = principals \ {p}
    /\ osOut' = <<>>
    /\ UNCHANGED <<osState, fnVars, ruleVars>>

(***************************************************************************)
(* Inputs of expandFindingFieldsUpdate: every attribute null or configured. *)
(***************************************************************************)
FindingFieldsUpdateAttrs == DOMAIN findingFieldsUpdateAttrTypes

FindingFieldsUpdateNull ==
    [confidence |-> Int64Null,
     criticality |-> Int64Null,
     note |-> ListNull(ObjectType("note")),
     related_findings |-> SetNull(ObjectType("relatedFindings")),
     severity |-> ListNull(ObjectType("severity")),
     types |-> ListNull(StringType),
     user_defined_fields |-> MapNull(StringType),
     verification_state |-> StringNull,
     workflow |-> ListNull(ObjectType("workflow"))]

FindingFieldsUpdateSet ==
    [confidence |-> Int64Value(10),
     criticality |-> Int64Value(20),
     note |-> ListValue(ObjectType("note"),
                <<Object("note", [text |-> StringValue("t"),
                                  updated_by |-> StringValue("u")])>>).val,
     related_findings |-> SetValue(ObjectType("relatedFindings"),
                <<Object("relatedFindings",
                     [id |-> StringValue("f"),
                      product_arn |-> StringToFrameworkARN(Ptr("arn:p"))])>>).val,
     severity |-> SeverityBlock(Float64Value(1)),
     types |-> ListValue(StringType, <<StringValue("t")>>).val,
     user_defined_fields |-> [type |-> MapType(StringType), null |-> FALSE, unknown |-> FALSE,
                              elems |-> [k |-> "v"]],
     verification_state |-> StringValue("TRUE_POSITIVE"),
     workflow |-> ListValue(ObjectType("workflow"),
                <<Object("workflow", [status |-> StringValue("NEW")])>>).val]

FindingFieldsUpdateLists ==
    {<<>>} \cup {<<[a \in FindingFieldsUpdateAttrs |->
                      IF a \in S THEN FindingFieldsUpdateSet[a] ELSE FindingFieldsUpdateNull[a]]>> :
                 S \in SUBSET FindingFieldsUpdateAttrs}

ApplyFindingFieldsUpdate ==
    \E tfList \in FindingFieldsUpdateLists :
        /\ fn = "none"
        /\ fn' = "FindingFieldsUpdate"
        /\ UNCHANGED <<ruleVars, osVars>>
        /\ arg' = tfList
        /\ res' = expandFindingFieldsUpdate(tfList)

(***************************************************************************)
(* Inputs of findAuthorizeVpcEndpointAccesses: the pages a paging delivers  *)
(* and the error, if any, that ends it.                                    *)
(***************************************************************************)
Pages ==
    {[nil |-> TRUE, AuthorizedPrincipalList |-> <<>>]}
    \cup {[nil |-> FALSE, AuthorizedPrincipalList |-> l] :
            l \in {<<>>, <<AuthorizedPrincipal("A")>>, <<AuthorizedPrincipal("B")>>,
                   <<AuthorizedPrincipal("A"), AuthorizedPrincipal("B")>>}}

PagingAnswers ==
    [err : {<<>>, <<ApiError("InternalException", <<"internal error">>)>>},
     pages : UNION {[1..n -> Pages] : n \in 0..MaxPages}]

ApplyPages ==
    \E answer \in PagingAnswers :
        /\ fn = "none"
        /\ fn' = "Pages"
        /\ UNCHANGED <<ruleVars, osVars>>
        /\ arg' = answer
        /\ res' = findAuthorizeVpcEndpointAccesses(answer)

(***************************************************************************)
(* Inputs of flattenSeverity: what the service can return for a severity.  *)
(***************************************************************************)
SeverityUpdates ==
    {NilSeverity}
    \cup [nil : {FALSE}, Label : {"", "HIGH"}, Product : {NilNum, Num(0), Num(1)}]

ApplySeverity ==
    \E apiObject \in SeverityUpdates :
        /\ fn = "none"
        /\ fn' = "Severity"
        /\ UNCHANGED <<ruleVars, osVars>>
        /\ arg' = apiObject
        /\ res' = flattenSeverity(apiObject)

(***************************************************************************)
(* Inputs of the expanders: for each of them two different elements, from  *)
(* which the input lists are built.                                        *)
(***************************************************************************)
ExpanderElems ==
    [expandActions |->
        {[finding_fields_update |-> FindingFieldsUpdateBlock(SeverityBlock(Float64Value(1))),
          type |-> StringValue("FINDING_FIELDS_UPDATE")],
         [finding_fields_update |-> ListNull(ObjectType("findingFieldsUpdate")),
          type |-> StringNull]},
     expandRelatedFindings |->
        {[id |-> StringValue("f"), product_arn |-> StringToFrameworkARN(Ptr("arn:p"))],
         [id |-> StringValue("g"), product_arn |-> StringToFrameworkARN(Ptr("arn:q"))]},
     expandStringFilter |->
        {[comparison |-> StringValue("EQUALS"), value |-> StringValue("a")],
         [comparison |-> StringValue("PREFIX"), value |-> StringValue("")]},
     expandNumberFilter |->
        {[eq |-> Float64Value(1), gte |-> Float64Null, lte |-> Float64Null],
         [eq |-> Float64Null, gte |-> Float64Value(0), lte |-> Float64Value(2)]},
     expandMapFilter |->
        {[comparison |-> StringValue("EQUALS"), key |-> StringValue("k"),
          value |-> StringValue("v")],
         [comparison |-> StringNull, key |-> StringNull, value |-> StringNull]},
     expandDateFilter |->
        {[date_range |-> ListNull(ObjectType("dateRange")),
          end |-> StringValue("e"), start |-> StringValue("s")],
         [date_range |-> ListValue(ObjectType("dateRange"),
                            <<Object("dateRange", [unit |-> StringValue("DAYS"),
                                                   value |-> Int64Value(5)])>>).val,
          end |-> StringNull, start |-> StringNull]},
     expandCriteria |-> {CriteriaWith({"severity_label"}, {}), CriteriaWith({}, {})},
     expandFindingFieldsUpdate |-> {FindingFieldsUpdateSet, FindingFieldsUpdateNull},
     expandNote |->
        {[text |-> StringValue("t"), updated_by |-> StringValue("u")],
         [text |-> StringValue("x"), updated_by |-> StringNull]},
     expandSeverity |->
        {[label |-> StringValue("HIGH"), product |-> Float64Null],
         [label |-> StringNull, product |-> Float64Value(1)]},
     expandWorkflow |-> {[status |-> StringValue("NEW")], [status |-> StringNull]},
     expandDateRange |->
        {[unit |-> StringValue("DAYS"), value |-> Int64Value(5)],
         [unit |-> StringNull, value |-> Int64Null]}]

\* the expander of that name applied to a list; an expander that returns no
\* diagnostics has added no error
ExpandByName(name, tfList) ==
    CASE name = "expandActions" -> expandActions(tfList)
      [] name = "expandRelatedFindings" -> [val |-> expandRelatedFindings(tfList), err |-> FALSE]
      [] name = "expandStringFilter" -> [val |-> expandStringFilter(tfList), err |-> FALSE]
      [] name = "expandNumberFilter" -> [val |-> expandNumberFilter(tfList), err |-> FALSE]
      [] name = "expandMapFilter" -> [val |-> expandMapFilter(tfList), err |-> FALSE]
      [] name = "expandDateFilter" -> [val |-> expandDateFilter(tfList), err |-> FALSE]
      [] name = "expandCriteria" -> expandCriteria(tfList)
      [] name = "expandFindingFieldsUpdate" -> expandFindingFieldsUpdate(tfList)
      [] name = "expandNote" -> [val |-> expandNote(tfList), err |-> FALSE]
      [] name = "expandSeverity" -> [val |-> expandSeverity(tfList), err |-> FALSE]
      [] name = "expandWorkflow" -> [val |-> expandWorkflow(tfList), err |-> FALSE]
      [] name = "expandDateRange" -> [val |-> expandDateRange(tfList), err |-> FALSE]

ApplyExpander ==
    \E name \in DOMAIN ExpanderElems :
        \E tfList \in UNION {[1..k -> ExpanderElems[name]] : k \in 0..MaxFilters} :
            /\ fn = "none"
            /\ fn' = "Expander"
            /\ UNCHANGED <<ruleVars, osVars>>
            /\ arg' = [name |-> name, tfList |-> tfList]
            /\ res' = ExpandByName(name, tfList)

(***************************************************************************)
(* SpecFn: the converters applied to bounded inputs.                       *)
(***************************************************************************)
FnIdle == fn = "none" /\ arg = <<>> /\ res = <<>>
RuleIdle ==
    /\ remote = {} /\ state = <<>> /\ diags = FALSE /\ pc = "idle"
    /\ data = <<>> /\ calls = <<>> /\ readOut = <<>> /\ lastOp = "none"
    /\ input = <<>> /\ issued = 0 /\ updates = 0
OSIdle == principals = {} /\ osState = [r \in OSResources |-> <<>>] /\ osOut = <<>>

InitFn == FnIdle /\ RuleIdle /\ OSIdle

NextFn ==
    \/ ApplyRecordMigrateState
    \/ ApplyCalculatedMeasureField
    \/ ApplyStringFilter
    \/ ApplyCriteria
    \/ ApplyFindingFieldsUpdate
    \/ ApplyPages
    \/ ApplySeverity
    \/ ApplyExpander
    \/ ApplyDateDimensionField

SpecFn == InitFn /\ [][NextFn]_vars

Init == FnIdle /\ RuleIdle /\ OSIdle

Next ==
    \/ CreateExpand
    \/ CreateCall
    \/ CreateReadBack
    \/ Read
    \/ Delete
    \/ ExternalDelete
    \/ Update

Spec == Init /\ [][Next]_vars

InitOS == FnIdle /\ RuleIdle /\ OSIdle

NextOS ==
    \/ OSCreate
    \/ OSRead
    \/ OSDelete
    \/ OSExternalRevoke

SpecOS == InitOS /\ [][NextOS]_vars

\* a configuration that holds resources of one of the two kinds: the one
\* automation rule, or the OpenSearch access resources
InitBoth == FnIdle /\ RuleIdle /\ OSIdle

NextBoth ==
    \/ OSIdle /\ CreateExpand
    \/ OSIdle /\ CreateCall
    \/ OSIdle /\ CreateReadBack
    \/ OSIdle /\ Read
    \/ OSIdle /\ Delete
    \/ OSIdle /\ ExternalDelete
    \/ OSIdle /\ Update
    \/ RuleIdle /\ OSCreate
    \/ RuleIdle /\ OSRead
    \/ RuleIdle /\ OSDelete
    \/ RuleIdle /\ OSExternalRevoke

SpecBoth == InitBoth /\ [][NextBoth]_vars

(***************************************************************************)
(* C1: RecordMigrateState from state version 0 returns no error and the    *)
(* name with one trailing "." removed when the input name ends in ".",     *)
(* and the input name unchanged when it does not.                          *)
(***************************************************************************)
C1_MigrateV0TrimsName ==
    (fn = "RecordMigrateState" /\ arg.v = 0 /\ "name" \in DOMAIN arg.is) =>
        LET n == arg.is["name"]
            r == Get(res.is, "name")
        IN /\ ~res.err
           /\ IF Len(n) > 0 /\ n[Len(n)] = "."
              THEN r \o <<".">> = n
              ELSE r = n

C1_Witness ==
    /\ fn = "RecordMigrateState" /\ arg.v = 0
    /\ Get(arg.is, "name") = <<"w", ".", ".">>
    /\ Get(res.is, "name") = <<"w", ".">>

(***************************************************************************)
(* C2: MigrateState from state version 1 on a state holding weight = w and *)
(* failover = f (both non-empty, w not "-1") returns no error and a state  *)
(* with weighted_routing_policy.# = "1", weighted_routing_policy.0.weight  *)
(* = w, failover_routing_policy.# = "1", failover_routing_policy.0.type=f. *)
(***************************************************************************)
C2_MigrateV1Policies ==
    (/\ fn = "RecordMigrateState" /\ arg.v = 1
     /\ Get(arg.is, "weight") \notin {<<>>, <<"-", "1">>}
     /\ Get(arg.is, "failover") # <<>>) =>
        /\ ~res.err
        /\ Get(res.is, "weighted_routing_policy.#") = <<"1">>
        /\ Get(res.is, "weighted_routing_policy.0.weight") = arg.is["weight"]
        /\ Get(res.is, "failover_routing_policy.#") = <<"1">>
        /\ Get(res.is, "failover_routing_policy.0.type") = arg.is["failover"]

C2_Witness ==
    /\ fn = "RecordMigrateState" /\ arg.v = 1
    /\ Get(arg.is, "weight") = <<"0">>
    /\ Get(arg.is, "failover") = <<"P", "R", "I", "M", "A", "R", "Y">>
    /\ Get(res.is, "failover_routing_policy.0.type") = <<"P", "R", "I", "M", "A", "R", "Y">>

(***************************************************************************)
(* C9: for every non-nil CalculatedMeasureField x whose FieldId and        *)
(* Expression are each unset or a non-empty string, expand(flatten(x))     *)
(* equals x; a field the API returns as an empty string comes back unset.  *)
(***************************************************************************)
C9_CalculatedMeasureRoundTrip ==
    (fn = "CalculatedMeasureField" /\ ~arg.nil) =>
        /\ ~res.nil
        /\ res.FieldId = (IF arg.FieldId = Ptr("") THEN NilPtr ELSE arg.FieldId)
        /\ res.Expression = (IF arg.Expression = Ptr("") THEN NilPtr ELSE arg.Expression)

C9_Witness ==
    /\ fn = "CalculatedMeasureField"
    /\ arg = [nil |-> FALSE, FieldId |-> Ptr("a"), Expression |-> Ptr("")]
    /\ res = [nil |-> FALSE, FieldId |-> Ptr("a"), Expression |-> NilPtr]

(***************************************************************************)
(* C8: for every non-empty list L of (comparison, value) filters,          *)
(* flattenStringFilter(expandStringFilter(L)) is a non-null set holding    *)
(* exactly the (comparison, value) pairs of L, with no error diagnostic;   *)
(* for an empty L, expandStringFilter returns nil and flattenStringFilter  *)
(* of that result is the null set.                                         *)
(***************************************************************************)
C8_StringFilterRoundTrip ==
    (fn = "StringFilter") =>
        IF Len(arg) > 0
        THEN /\ ~res.tf.err
             /\ ~res.tf.val.null /\ ~res.tf.val.unknown
             /\ res.tf.val.elems =
                  {Object("stringFilter", [comparison |-> arg[i].comparison,
                                           value |-> arg[i].value]) : i \in DOMAIN arg}
        ELSE /\ res.api.nil
             /\ ~res.tf.err
             /\ res.tf.val = SetNull(ObjectType("stringFilter"))

C8_Witness ==
    /\ fn = "StringFilter"
    /\ Len(arg) = 2
    /\ arg[1] = [comparison |-> StringValue("PREFIX"), value |-> StringValue("")]
    /\ Cardinality(res.tf.val.elems) = 2

(***************************************************************************)
(* C10: criteria field mapping is name-preserving in both directions:      *)
(* expandCriteria fills exactly the API filter fields whose attribute      *)
(* holds a non-empty set, flattenCriteria copies each API field back into  *)
(* the same attribute with the attribute's filter kind, so the attributes  *)
(* that are non-null after flattenCriteria(expandCriteria(c)) are exactly  *)
(* the attributes of c that hold a non-empty set, with their filters.      *)
(***************************************************************************)
C10_CriteriaNamePreserving ==
    (fn = "Criteria") =>
        LET NonEmpty == {a \in CriteriaAttrs : ~arg[a].null /\ arg[a].elems # {}}
        IN /\ ~res.api.nil /\ ~res.expandErr
           /\ \A a \in CriteriaAttrs :
                 res.api.fields[criteriaFlattenFields[a].api].nil <=> a \notin NonEmpty
           /\ ~res.tf.err
           /\ ~res.tf.val.null /\ ~res.tf.val.unknown
           /\ Len(res.tf.val.elems) = 1
           /\ LET o == res.tf.val.elems[1].attrs
              IN /\ DOMAIN o = CriteriaAttrs
                 /\ {a \in CriteriaAttrs : ~o[a].null} = NonEmpty
                 /\ \A a \in CriteriaAttrs :
                       /\ o[a].type = criteriaAttrTypes[a]
                       /\ a \in NonEmpty => o[a] = arg[a]

C10_Witness ==
    /\ fn = "Criteria"
    /\ ~arg["product_arn"].null /\ arg["product_arn"].elems # {}
    /\ res.tf.val.elems[1].attrs["product_arn"] = arg["product_arn"]
    /\ res.tf.val.elems[1].attrs["product_name"].null

(***************************************************************************)
(* C3: Create takes its steps in the order expand, CreateAutomationRule,   *)
(* read-back (findAutomationRuleByARN), State.Set, each step only after    *)
(* the steps before it succeeded; when Create has returned, either all     *)
(* four steps succeeded, the state holds the data and there is no error    *)
(* diagnostic, or a step failed, there is an error diagnostic and no state *)
(* was written.                                                            *)
(***************************************************************************)
CreateOrder == <<"expand", "CreateAutomationRule", "findAutomationRuleByARN", "State.Set">>

C3_CreateOrder ==
    lastOp = "Create" =>
        /\ Len(calls) \in 1..4
        /\ \A i \in DOMAIN calls : calls[i].op = CreateOrder[i]
        /\ \A i \in DOMAIN calls : i < Len(calls) => calls[i].ok
        /\ pc = "idle" =>
             IF Len(calls) = 4 /\ calls[4].ok
             THEN ~diags /\ state = data /\ Len(state) = 1
             ELSE diags /\ state = <<>> /\ ~calls[Len(calls)].ok

\* Create returned after a failed read-back: a diagnostic and no state
C3_Witness ==
    /\ lastOp = "Create" /\ pc = "idle"
    /\ Len(calls) = 3 /\ ~calls[3].ok
    /\ diags /\ state = <<>>

(***************************************************************************)
(* C4: when Create has returned and its CreateAutomationRule call          *)
(* succeeded, the rule it created, if it still exists remotely, is tracked *)
(* in state.                                                               *)
(***************************************************************************)
C4_CreatedRuleTracked ==
    (/\ lastOp = "Create" /\ pc = "idle"
     /\ Len(calls) >= 2 /\ calls[2].ok
     /\ \E r \in remote : r.RuleArn = Ptr(ValueString(data[1].ARN))) =>
        /\ Len(state) = 1
        /\ state[1].ARN = data[1].ARN

(***************************************************************************)
(* C5: a Read whose BatchGetAutomationRules call fails with the code       *)
(* ResourceNotFoundException, or with InvalidAccessException and a message *)
(* containing "not subscribed to AWS Security Hub", or returns no rule,    *)
(* removes the resource from state and records no error diagnostic; a Read *)
(* whose call fails with any other error records an error diagnostic and   *)
(* leaves the state as it was.                                             *)
(***************************************************************************)
C5_ReadNotFound ==
    [][(pc = "idle" /\ lastOp' = "Read") =>
        LET out == readOut'[1]
            failed == Len(out.err) > 0
            notFound ==
                \/ failed /\ out.err[1].code = "ResourceNotFoundException"
                \/ /\ failed /\ out.err[1].code = "InvalidAccessException"
                   /\ \E i \in DOMAIN out.err[1].message :
                         out.err[1].message[i] = "not subscribed to AWS Security Hub"
                \/ ~failed /\ (out.nilOutput \/ Len(out.Rules) = 0)
        IN /\ notFound => (state' = <<>> /\ ~diags')
           /\ (failed /\ ~notFound) => (diags' /\ state' = state)]_vars

\* a Read answered "not subscribed" has removed the resource without a diagnostic
C5_Witness ==
    /\ lastOp = "Read" /\ pc = "idle"
    /\ Len(readOut) = 1 /\ Len(readOut[1].err) = 1
    /\ readOut[1].err[1].code = "InvalidAccessException"
    /\ \E i \in DOMAIN readOut[1].err[1].message :
          readOut[1].err[1].message[i] = "not subscribed to AWS Security Hub"
    /\ state = <<>> /\ ~diags

(***************************************************************************)
(* C6: a Read whose ListVpcEndpointAccess call lists no authorized         *)
(* principal for the domain removes the resource from state and records no *)
(* error diagnostic; a Read whose lookup fails in any other way (the call  *)
(* fails, or the list does not hold exactly one principal) records an      *)
(* error diagnostic and leaves the state as it was.                        *)
(***************************************************************************)
Listed(answer) ==
    {<<i, j>> \in (DOMAIN answer.pages) \X (1..2) :
        ~answer.pages[i].nil /\ j <= Len(answer.pages[i].AuthorizedPrincipalList)}

C6_OSReadNotFound ==
    (Len(osOut) = 1 /\ osOut[1].op = "Read") =>
        LET o == osOut[1]
            failed == Len(o.answer.err) > 0
            none == ~failed /\ Listed(o.answer) = {}
            otherError == failed \/ Cardinality(Listed(o.answer)) > 1
        IN /\ none => (osState[o.r] = <<>> /\ ~o.diags)
           /\ otherError => (o.diags /\ osState[o.r] = o.prior)

(***************************************************************************)
(* C7: the outcome of a Read of the resource for (domain D, account A),    *)
(* the state it leaves and whether it records an error diagnostic, is the  *)
(* outcome the same Read has when the accounts that other resources        *)
(* authorized on D are not listed.                                         *)
(***************************************************************************)
OwnPrincipals(answer, account) ==
    [err |-> answer.err,
     pages |-> [i \in DOMAIN answer.pages |->
                  [nil |-> answer.pages[i].nil,
                   AuthorizedPrincipalList |->
                      SelectSeq(answer.pages[i].AuthorizedPrincipalList,
                                LAMBDA p : p.Principal = Ptr(account))]]]

C7_ReadIgnoresOtherAccounts ==
    (Len(osOut) = 1 /\ osOut[1].op = "Read") =>
        LET o == osOut[1]
            alone == OSReadOutcome(o.prior, OwnPrincipals(o.answer, OSConfig[o.r].account))
        IN osState[o.r] = alone.state /\ o.diags = alone.diags

(***************************************************************************)
(* C11: expandFindingFieldsUpdate returns nil for an empty list, and for a *)
(* one-element list an object in which a field (Confidence, Criticality,   *)
(* Note, RelatedFindings, Severity, Types, UserDefinedFields,              *)
(* VerificationState, Workflow) holds a value only if its attribute is     *)
(* non-null.                                                               *)
(***************************************************************************)
C11_FieldOnlyWhenConfigured ==
    fn = "FindingFieldsUpdate" =>
        IF Len(arg) = 0 THEN res.val.nil /\ ~res.err
        ELSE LET tfObj == arg[1]
                 api == res.val
             IN /\ ~res.err /\ ~api.nil
                /\ ~api.Confidence.nil => ~tfObj.confidence.null
                /\ ~api.Criticality.nil => ~tfObj.criticality.null
                /\ ~api.Note.nil => ~tfObj.note.null
                /\ ~api.RelatedFindings.nil => ~tfObj.related_findings.null
                /\ ~api.Severity.nil => ~tfObj.severity.null
                /\ ~api.Types.nil => ~tfObj.types.null
                /\ ~api.UserDefinedFields.nil => ~tfObj.user_defined_fields.null
                /\ api.VerificationState # "" => ~tfObj.verification_state.null
                /\ ~api.Workflow.nil => ~tfObj.workflow.null

\* only severity and types are configured: exactly these two fields are sent
C11_Witness ==
    /\ fn = "FindingFieldsUpdate" /\ Len(arg) = 1
    /\ ~arg[1].severity.null /\ ~arg[1].types.null /\ arg[1].confidence.null
    /\ ~res.val.Severity.nil /\ ~res.val.Types.nil
    /\ res.val.Confidence.nil /\ res.val.Note.nil /\ res.val.VerificationState = ""

(***************************************************************************)
(* C12: when the paging ends without error, findAuthorizeVpcEndpointAccesses *)
(* returns the AuthorizedPrincipalList of all pages delivered, concatenated *)
(* in page order, a nil page adding nothing; the page callback asks for    *)
(* the next page exactly when lastPage is false; when the paging ends with *)
(* an error the function returns that error and no items.                  *)
(***************************************************************************)
RECURSIVE ConcatPages(_)
ConcatPages(pages) ==
    IF Len(pages) = 0 THEN <<>>
    ELSE (IF pages[1].nil THEN <<>> ELSE pages[1].AuthorizedPrincipalList)
         \o ConcatPages(Tail(pages))

C12_Pagination ==
    fn = "Pages" =>
        /\ Len(arg.err) = 0 => (res.err = <<>> /\ res.val = ConcatPages(arg.pages))
        /\ Len(arg.err) > 0 => (res.err = arg.err /\ res.val = <<>>)
        /\ \A i \in DOMAIN arg.pages : \A lastPage \in BOOLEAN :
              PageCallback(<<>>, arg.pages[i], lastPage).continue = ~lastPage

\* a nil page between two pages with items: both pages' items are returned
C12_Witness ==
    /\ fn = "Pages" /\ Len(arg.err) = 0 /\ Len(arg.pages) = 3
    /\ ~arg.pages[1].nil /\ arg.pages[2].nil /\ ~arg.pages[3].nil
    /\ res.val = <<AuthorizedPrincipal("A"), AuthorizedPrincipal("B")>>

(***************************************************************************)
(* C13: Update calls BatchUpdateAutomationRules exactly when the plan and  *)
(* the prior state differ in at least one of actions, criteria,            *)
(* description, is_terminal, rule_name, rule_order and rule_status; when   *)
(* none of them differs it makes no call, records no error diagnostic and  *)
(* writes the plan to state.                                               *)
(***************************************************************************)
TrackedFields ==
    {"Actions", "Criteria", "Description", "IsTerminal", "RuleName", "RuleOrder", "RuleStatus"}

C14_UpdateFailureKeepsState ==
    [][updates' = updates + 1 =>
        LET failed == \E i \in DOMAIN calls' : ~calls'[i].ok
        IN /\ failed => diags'
           /\ diags' => (state' = state /\ calls'[Len(calls')].op # "State.Set")]_vars

\* an Update whose BatchUpdateAutomationRules call failed: a diagnostic, and
\* the state is still the prior one, not the plan
C14_Witness ==
    /\ lastOp = "Update" /\ updates = 1
    /\ Len(calls) = 2 /\ calls[2] = Step("BatchUpdateAutomationRules", FALSE)
    /\ diags /\ Len(state) = 1 /\ state # data

(***************************************************************************)
(* C15: when an Update that sent a changed tracked attribute returns with  *)
(* no error diagnostic, the remote rule with the state's ARN holds the     *)
(* plan's description, is_terminal, rule_name, rule_order, actions and     *)
(* criteria; a rule reported back as unprocessed is not updated.           *)
(***************************************************************************)
C15_UpdateAppliedRemotely ==
    [][(updates' = updates + 1 /\ ~diags' /\ Len(input') = 1) =>
        LET new == state'[1]
        IN \E r \in remote' :
              /\ r.RuleArn = Ptr(ValueString(new.ARN))
              /\ r.Description = Ptr(ValueString(new.Description))
              /\ r.IsTerminal = ValueBool(new.IsTerminal)
              /\ r.RuleName = Ptr(ValueString(new.RuleName))
              /\ r.RuleOrder = Num(ValueInt64(new.RuleOrder))
              /\ r.Actions = expandActions(ElementsAs(new.Actions)).val
              /\ r.Criteria = expandCriteria(ElementsAs(new.Criteria)).val]_vars

(***************************************************************************)
(* C16: in both resources a Delete whose call (BatchDeleteAutomationRules, *)
(* RevokeVpcEndpointAccess) fails with ResourceNotFoundException returns   *)
(* with no error diagnostic, as a Delete whose call succeeds does, and the *)
(* resource leaves the state; a Delete whose call fails with any other     *)
(* error records an error diagnostic and the resource stays in state.      *)
(***************************************************************************)
C16_DeleteTolerant ==
    [][/\ (lastOp' = "Delete" /\ Len(state) = 1) =>
            LET err == readOut'[1].err
                gone == ErrCodeEquals(err, errCodeResourceNotFoundException)
            IN /\ (Len(err) = 0 \/ gone) => (~diags' /\ state' = <<>>)
               /\ (Len(err) > 0 /\ ~gone) => (diags' /\ state' = state)
       /\ (Len(osOut') = 1 /\ osOut'[1].op = "Delete" /\ osState[osOut'[1].r] # <<>>) =>
            LET o == osOut'[1]
                gone == ErrCodeEquals(o.answer.err, errCodeResourceNotFoundException)
            IN /\ (Len(o.answer.err) = 0 \/ gone) => (~o.diags /\ osState'[o.r] = <<>>)
               /\ (Len(o.answer.err) > 0 /\ ~gone) => (o.diags /\ osState'[o.r] = osState[o.r])
      ]_vars

\* a Delete of a rule that was already deleted remotely: the call failed with
\* ResourceNotFoundException, no diagnostic, the rule left the state
C16_Witness ==
    /\ lastOp = "Delete" /\ issued = 1 /\ remote = {}
    /\ Len(readOut) = 1
    /\ ErrCodeEquals(readOut[1].err, errCodeResourceNotFoundException)
    /\ ~diags /\ state = <<>>

(***************************************************************************)
(* C17: in every state of the automation rule written by Create, Read or   *)
(* Update, id equals arn and both are the RuleArn the service returned, so *)
(* the lookup by id and the calls by arn address the same remote rule: the *)
(* item an Update sends carries that ARN.                                  *)
(***************************************************************************)
C17_IdIsArn ==
    Len(state) = 1 =>
        /\ state[1].ID = state[1].ARN
        /\ ~state[1].ID.null /\ ~state[1].ID.unknown
        /\ \E n \in 1..issued : ValueString(state[1].ID) = RuleArn(n)
        /\ (lastOp = "Update" /\ Len(input) = 1) =>
              input[1].RuleArn = Ptr(ValueString(state[1].ID))

\* a state written by Read after a Create and an Update
C17_Witness ==
    /\ lastOp = "Read" /\ updates = 1 /\ ~diags
    /\ Len(state) = 1 /\ state = data
    /\ state[1].ID = StringValue(RuleArn(1))

(***************************************************************************)
(* C18: a Read of the automation rule writes the state only when it has    *)
(* recorded no error diagnostic: a Read that ends with an error            *)
(* diagnostic, as when flattenActions or flattenCriteria reports one,      *)
(* leaves the state as it was.                                             *)
(***************************************************************************)
C18_ReadErrorKeepsState ==
    [][(pc = "idle" /\ Len(state) = 1 /\ lastOp' = "Read" /\ diags') => state' = state]_vars

(***************************************************************************)
(* C19: for every non-nil SeverityUpdate, one whose Product is nil         *)
(* included, flattenSeverity returns no error diagnostic and a list of one *)
(* known object that has a value for each attribute of severityAttrTypes,  *)
(* product being null when the API gives none.                             *)
(***************************************************************************)
C19_SeverityFlattens ==
    (fn = "Severity" /\ ~arg.nil) =>
        /\ ~res.err
        /\ ~res.val.null /\ ~res.val.unknown
        /\ Len(res.val.elems) = 1
        /\ ~res.val.elems[1].unknown
        /\ DOMAIN res.val.elems[1].attrs = DOMAIN severityAttrTypes
        /\ arg.Product.nil => res.val.elems[1].attrs.product = Float64Null

(***************************************************************************)
(* C20: the RuleOrder that Create and Update send to the API equals the    *)
(* rule_order of the plan, for every value the schema accepts: narrowing   *)
(* it to the API's integer width does not change the value.                *)
(***************************************************************************)
C20_RuleOrderSentAsConfigured ==
    (lastOp \in {"Create", "Update"} /\ Len(input) = 1 /\ Len(data) = 1) =>
        input[1].RuleOrder = Num(ValueInt64(data[1].RuleOrder))

(***************************************************************************)
(* C21: the list expanders expandActions, expandRelatedFindings,           *)
(* expandStringFilter, expandNumberFilter, expandMapFilter and             *)
(* expandDateFilter return nil for an empty list and otherwise one API     *)
(* element per input element, in input order; the single-object expanders  *)
(* expandCriteria, expandFindingFieldsUpdate, expandNote, expandSeverity,  *)
(* expandWorkflow and expandDateRange return nil for an empty list and     *)
(* otherwise what they return for the first element alone.                 *)
(***************************************************************************)
ListExpanders ==
    {"expandActions", "expandRelatedFindings", "expandStringFilter", "expandNumberFilter",
     "expandMapFilter", "expandDateFilter"}

C21_ExpanderArity ==
    fn = "Expander" =>
        LET tfList == arg.tfList
            out == res.val
            alone(i) == ExpandByName(arg.name, <<tfList[i]>>).val
        IN /\ ~res.err
           /\ Len(tfList) = 0 <=> out.nil
           /\ (Len(tfList) > 0 /\ arg.name \in ListExpanders) =>
                 /\ Len(out.items) = Len(tfList)
                 /\ \A i \in DOMAIN tfList : out.items[i] = alone(i).items[1]
           /\ (Len(tfList) > 0 /\ arg.name \notin ListExpanders) => out = alone(1)

\* two different related findings expanded to two API elements
C21_Witness ==
    /\ fn = "Expander" /\ arg.name = "expandRelatedFindings"
    /\ Len(arg.tfList) = 2 /\ arg.tfList[1] # arg.tfList[2]
    /\ Len(res.val.items) = 2 /\ res.val.items[1] # res.val.items[2]

(***************************************************************************)
(* C22: the request of Create carries a RuleStatus only when rule_status   *)
(* is non-null in the plan, and then the plan's value; the rule_status in  *)
(* the state a successful Create writes is the status of the rule the      *)
(* read-back returned, not the planned value.                              *)
(***************************************************************************)
C22_CreateRuleStatus ==
    [][/\ (pc = "idle" /\ pc' = "create_call") =>
            LET plan == data'[1]
                in == input'[1]
            IN /\ in.RuleStatus # "" => (~plan.RuleStatus.null /\ ~plan.RuleStatus.unknown)
               /\ (~plan.RuleStatus.null /\ ~plan.RuleStatus.unknown) =>
                     in.RuleStatus = plan.RuleStatus.value
       /\ (pc = "create_readback" /\ Len(state') = 1) =>
            LET readBack == readOut'[1].Rules[1]
            IN state'[1].RuleStatus = StringValueToFramework(readBack.RuleStatus)
      ]_vars

\* a Create whose plan left rule_status unconfigured: nothing was sent for
\* it and the state holds the status the service gave the rule
C22_Witness ==
    /\ lastOp = "Create" /\ pc = "idle" /\ ~diags
    /\ Len(input) = 1 /\ input[1].RuleStatus = ""
    /\ Len(state) = 1 /\ state[1].RuleStatus = StringValue("ENABLED")

(***************************************************************************)
(* C23: for every non-nil DateDimensionField f whose FieldId, HierarchyId  *)
(* and DateGranularity are non-empty, expandDateDimensionField applied to  *)
(* the output of flattenDateDimensionField(f) has the FieldId, the         *)
(* HierarchyId and the DateGranularity of f.                               *)
(***************************************************************************)
C23_DateDimensionRoundTrip ==
    (/\ fn = "DateDimensionField" /\ ~arg.nil
     /\ ~arg.FieldId.nil /\ arg.FieldId.v # ""
     /\ ~arg.HierarchyId.nil /\ arg.HierarchyId.v # ""
     /\ arg.DateGranularity # "") =>
        /\ ~res.nil
        /\ res.FieldId = arg.FieldId
        /\ res.HierarchyId = arg.HierarchyId
        /\ res.DateGranularity = arg.DateGranularity

====
